---- MODULE Spec2Model ----
(***************************************************************************)
(* Stock, request and issuance workflow of the stock management            *)
(* application.                                                            *)
(*                                                                         *)
(* The persistent store (stock_items, requests, issued_items,              *)
(* item_transfers, discarded_items) is shared by browser sessions.  Every  *)
(* handler is a sequence of store calls; one action of the model is one    *)
(* store call together with the synchronous code that follows it up to the *)
(* next await (the reload a handler ends with is part of its last step).   *)
(* A session shows one page at a time; the page keeps the list it loaded   *)
(* when it was mounted or last reloaded, and its buttons are guarded by    *)
(* that list, not by the store.                                            *)
(***************************************************************************)
EXTENDS Integers, Sequences, FiniteSets, Bags, TLC

\* the stock items, in the order of their names
ItemOrder == <<"i1", "i2">>
Items == {ItemOrder[n] : n \in 1..Len(ItemOrder)}
Admins == {"a1", "a2"}
Guests == {"u1", "u2"}
Requesters == {"u1"}
Sessions == Admins \cup Guests
Reasons == {"damaged", "broken", "expired"}

\* ---- bounds of the model ----
InitQty == 2
MaxReqQty == 2
MaxRequests == 1
MaxAddQty == 1
MaxRestocks == 1
MaxDiscards == 2
MaxTransfers == 1
MaxIssuedRows == 2
MaxInFlight == 2
MaxDays == 11
MaxDrift == 1
MaxEditQty == 3
MaxAssets == 1

\* AdminDashboard.tsx 131: 1000 * 60 * 60 * 24 ms, on the model's clock of hours
DayLen == 24
\* RequestManagement.tsx 685: useState(7)
ReturnDays == 7
MinReturnDays == 1
MaxReturnDays == 365
\* the browsers' time zone: clocks go forward by DstShift hours at hour DstStart
DstStart == 194
DstShift == 1

OverdueViews == {"issued", "myitems", "dashboard"}

VARIABLES
    stock_items,        \* store: item id -> quantity
    requests,           \* store: sequence of request rows (index = id)
    issued_items,       \* store: sequence of issued rows (index = id)
    item_transfers,     \* store: sequence of transfer rows
    discarded_items,    \* store: sequence of discard rows
    purchase_history,   \* store: sequence of purchase rows
    assets,             \* store: sequence of asset rows (index = id)
    cart,               \* per session: the cart of its stock browser
    modal,              \* per session: the request details dialog of its requests page
    users,              \* store: the users table, by name
    user,               \* AuthContext: the signed-in user of the browser, if any
    profile,            \* AuthContext: its profile, if any
    view,               \* per session: the page shown and the list it holds
    proc,               \* per session: the handler it is running, and its locals
    toast,              \* the toast emitted by the last step, if any
    pre,                \* history: per session, the store when its handler started
    done,               \* history: the handler that ended in the last step, if any
    ledger,             \* history: per item, the bag of quantity deltas committed
    initial,            \* history: the quantities of the initial state
    submitted,          \* history: per request, quantities and ledger at submit
    serial,             \* TRUE when handlers run one at a time
    now,                \* the clock the browsers read, in hours
    overdue             \* per view, the overdue figures of its latest rendering

\* a column that holds no value, and the notes an admin may type
NULL == "NULL"
Notes == {"", "checked"}
\* the locations and the discard reasons an admin may type
Locations == {"office", "store"}
DiscardReasons == {"broken", "lost"}

vars == <<stock_items, requests, issued_items, item_transfers, discarded_items,
          purchase_history, assets, cart, view, proc, toast, pre, done, ledger, initial,
          submitted, serial,
          now, overdue, modal, users, user, profile>>

store == <<stock_items, requests, issued_items, item_transfers, discarded_items,
           purchase_history, assets>>

history == <<ledger, initial, submitted>>

\* ---- plain helpers ----
RECURSIVE SumBag(_, _)
SumBag(B, S) ==
    IF S = {} THEN 0
    ELSE LET e == CHOOSE x \in S : TRUE
         IN e.amount * CopiesIn(e, B) + SumBag(B, S \ {e})

\* the sum of the amounts of kind op committed on an item
SumOf(B, op) == SumBag(B, {e \in BagToSet(B) : e.op = op})

\* the number of deltas of kind op committed on all items
RECURSIVE CountOver(_, _, _)
CountOver(L, op, S) ==
    IF S = {} THEN 0
    ELSE LET i == CHOOSE x \in S : TRUE
             B == L[i]
             RECURSIVE Cnt(_)
             Cnt(T) == IF T = {} THEN 0
                       ELSE LET e == CHOOSE x \in T : TRUE
                            IN CopiesIn(e, B) + Cnt(T \ {e})
         IN Cnt({e \in BagToSet(B) : e.op = op}) + CountOver(L, op, S \ {i})

Entry(op, ref, amount) == [op |-> op, ref |-> ref, amount |-> amount]

\* the carts submitRequest can be given: one line per item, quantities > 0
Lines1 == { <<[item_id |-> i, quantity |-> q]>> : i \in Items, q \in 1..MaxReqQty }
Lines2 == { <<[item_id |-> i, quantity |-> q], [item_id |-> j, quantity |-> p]>> :
              i \in Items, j \in Items, q \in 1..MaxReqQty, p \in 1..MaxReqQty }
Carts == Lines1 \cup { c \in Lines2 : c[1].item_id # c[2].item_id }

NoLines == <<>>
Idle == [op |-> "idle", pc |-> "idle", id |-> 0, status |-> "none", hasItems |-> FALSE,
         lines |-> NoLines, k |-> 0, cur |-> 0, item |-> "none", qty |-> 0,
         to |-> "none", reason |-> "none", notes |-> "", username |-> "", password |-> ""]
NoToast == [session |-> "none", kind |-> "none", item |-> "none", available |-> 0,
            requested |-> 0]
NoPre == [stock_items |-> [i \in Items |-> 0], requests |-> <<>>, issued_items |-> <<>>,
          item_transfers |-> <<>>, discarded_items |-> <<>>, purchase_history |-> <<>>,
          assets |-> <<>>]
\* no request selected (RequestManagement.tsx 31): the details dialog is closed
NoModal == [request |-> 0, status |-> "none", items |-> NoLines, editableItems |-> NoLines,
            editingItemIndex |-> 0]
\* ---- the users table and the sign-in form ----
\* a stored password hash: its format and the password it was made from
DemoHash(password) == [format |-> "demo_hash_", password |-> password]
\* no row found, and nobody signed in (user and profile null)
NoUserData == [role |-> "none", password_hash |-> [format |-> "none", password |-> NULL]]
NoUser == [id |-> NULL]
NoProfile == [id |-> NULL, role |-> "none"]
\* the names and the passwords typed into the sign-in form, and the name and the
\* passwords given to Add User
Usernames == {"", "anil", "admin", "guest", "u3", "nobody"}
Passwords == {"7917794", "admin123", "guest123", "secret", "wrong"}
NewUsers == {"u3"}
NewPasswords == {"secret", "7917794"}
\* a view not rendered yet
NoFigures == [at |-> <<0, 0>>, rows |-> <<>>]

NoDone == [session |-> "none", op |-> "none", id |-> 0, lines |-> NoLines,
           item |-> "none", qty |-> 0, to |-> "none", reason |-> "none", notes |-> "",
           username |-> "", password |-> "", pre |-> NoPre]
Success(s) == [NoToast EXCEPT !.session = s, !.kind = "success"]
\* the toast of a catch block
Failed(s) == [NoToast EXCEPT !.session = s, !.kind = "failed"]

Snapshot == [stock_items |-> stock_items, requests |-> requests,
             issued_items |-> issued_items, item_transfers |-> item_transfers,
             discarded_items |-> discarded_items, purchase_history |-> purchase_history,
             assets |-> assets]

\* ======================= the lists a page loads =======================
\* RequestManagement.tsx 38-52
checkIfRequestIssued(issued, requestId) ==
    \E n \in 1..Len(issued) : issued[n].request_id = requestId

\* RequestManagement.tsx 54-86
fetchRequests(reqs, issued) ==
    [r \in 1..Len(reqs) |->
        [user_id |-> reqs[r].user_id, items |-> reqs[r].items, status |-> reqs[r].status,
         is_issued |-> checkIfRequestIssued(issued, r)]]

\* RequestManagement.tsx 38-52 with the lookups of the requests in failed ending in
\* the catch block, which returns false (48-51)
isIssued(issued, requestId, failed) ==
    IF requestId \in failed THEN FALSE ELSE checkIfRequestIssued(issued, requestId)

\* RequestManagement.tsx 54-86 with those lookups failing
requestsWithDetails(reqs, issued, failed) ==
    [r \in 1..Len(reqs) |->
        [user_id |-> reqs[r].user_id, items |-> reqs[r].items, status |-> reqs[r].status,
         is_issued |-> isIssued(issued, r, failed)]]

\* IssuedItemsManagement.tsx 40-75 (the fields the buttons use)
fetchIssuedItems(issued) ==
    [n \in 1..Len(issued) |-> [shown |-> TRUE, returned |-> issued[n].returned]]

\* MyItems.tsx 45-82: only the rows whose user_id is the profile's
fetchMyIssuedItems(issued, u) ==
    [n \in 1..Len(issued) |->
        [shown |-> issued[n].user_id = u, returned |-> issued[n].returned]]

\* StockBrowser (part_007) 41-58: the items with stock, by name
fetchStockItems(stock) ==
    SelectSeq([n \in 1..Len(ItemOrder) |->
                  [item_id |-> ItemOrder[n], quantity |-> stock[ItemOrder[n]]]],
              LAMBDA row : row.quantity > 0)

\* AssetRegister (part_006) 49-78 (the field the row actions use)
fetchAssets(rows) == [n \in 1..Len(rows) |-> [status |-> rows[n].status]]

AdminPages == {"requests", "issued", "stock"}
AssetPages == {"assets"}
GuestPages == {"browser", "myitems"}

\* what a page of session s loads from a store holding reqs and issued
Loaded(s, page, reqs, issued) ==
    [page |-> page,
     rows |-> CASE page = "requests" -> fetchRequests(reqs, issued)
                [] page = "issued" -> fetchIssuedItems(issued)
                [] page = "myitems" -> fetchMyIssuedItems(issued, s)
                [] page = "browser" -> fetchStockItems(stock_items)
                [] page = "assets" -> fetchAssets(assets)
                [] OTHER -> <<>>]

Mounted(s, page) == Loaded(s, page, requests, issued_items)

\* ======================= scheduling =======================
CanStart(s) ==
    /\ proc[s].op = "idle"
    /\ serial => \A t \in Sessions : proc[t].op = "idle"
    /\ Cardinality({t \in Sessions : proc[t].op # "idle"}) < MaxInFlight

\* a click of session s starts a handler, which runs up to its first await
Begin(s, p) ==
    /\ proc' = [proc EXCEPT ![s] = p]
    /\ toast' = NoToast
    /\ done' = NoDone
    /\ pre' = [pre EXCEPT ![s] = Snapshot]

\* what is remembered of a handler of session s with locals p started in store st
Ended(s, p, st) ==
    [session |-> s, op |-> p.op, id |-> p.id, lines |-> p.lines, item |-> p.item,
     qty |-> p.qty, to |-> p.to, reason |-> p.reason, notes |-> p.notes,
     username |-> p.username, password |-> p.password, pre |-> st]

\* a click of session s whose handler (locals p) ends at once with toast t
Once(s, p, t) ==
    /\ proc' = proc
    /\ toast' = t
    /\ done' = Ended(s, p, Snapshot)
    /\ pre' = pre

\* the handler of session s goes on to its next await
Continue(s, p) ==
    /\ proc' = [proc EXCEPT ![s] = p]
    /\ toast' = NoToast
    /\ done' = NoDone
    /\ UNCHANGED pre

\* the handler of session s ends with toast t
Finish(s, t) ==
    /\ proc' = [proc EXCEPT ![s] = Idle]
    /\ toast' = t
    /\ done' = Ended(s, proc[s], pre[s])
    /\ pre' = [pre EXCEPT ![s] = NoPre]

\* the store call the handler of session s waits at (pc) fails and the handler's
\* catch block ends it: nothing is written, nothing is reloaded
Throw(s, pc) ==
    /\ proc[s].pc = pc
    /\ Finish(s, Failed(s))
    /\ UNCHANGED <<store, view, history, serial, now, overdue, cart, modal, users, user, profile>>

\* the reload at the end of a handler reaches the page only if it is still shown
Reload(s, page, reqs, issued) ==
    view' = IF view[s].page = page
            THEN [view EXCEPT ![s] = Loaded(s, page, reqs, issued)]
            ELSE view

Commit(item, op, ref, amount) ==
    ledger' = [ledger EXCEPT ![item] = @ (+) SetToBag({Entry(op, ref, amount)})]

\* the quantities on hand before any request
InitialStock == [i \in Items |-> IF i = "i1" THEN InitQty ELSE InitQty - 1]

InitStore ==
    /\ stock_items = InitialStock
    /\ requests = <<>>
    /\ issued_items = <<>>
    /\ item_transfers = <<>>
    /\ discarded_items = <<>>
    /\ purchase_history = <<>>
    /\ assets = <<>>

\* migrations 009 (25-27) and 011 (86-97): the users the schema is seeded with
SeededUsers ==
    [n \in {"anil", "admin", "guest"} |->
        CASE n = "anil" -> [role |-> "super_admin", password_hash |-> DemoHash("Ahnsuil7917794@")]
          [] n = "admin" -> [role |-> "admin", password_hash |-> DemoHash("admin123")]
          [] n = "guest" -> [role |-> "guest", password_hash |-> DemoHash("guest123")]]

\* nobody signed in (AuthContext.tsx 27-28)
InitAuth ==
    /\ users = SeededUsers
    /\ user = NoUser
    /\ profile = NoProfile

\* the sessions before any click; the history variables are set by the store's Init
InitSessions ==
    /\ view = [s \in Sessions |-> Mounted(s, IF s \in Admins THEN "home" ELSE "browser")]
    /\ cart = [s \in Sessions |-> <<>>]
    /\ modal = [s \in Sessions |-> NoModal]
    /\ proc = [s \in Sessions |-> Idle]
    /\ toast = NoToast
    /\ done = NoDone
    /\ pre = [s \in Sessions |-> NoPre]

InitHistory ==
    /\ ledger = [i \in Items |-> EmptyBag]
    /\ initial = stock_items
    /\ submitted = <<>>

InitClock ==
    /\ now = 0
    /\ overdue = [v \in OverdueViews |-> NoFigures]

Init == InitAuth /\ InitStore /\ InitHistory /\ InitSessions /\ InitClock /\ serial = FALSE

SerialInit == InitAuth /\ InitStore /\ InitHistory /\ InitSessions /\ InitClock /\ serial = TRUE

\* a session opens a page: the page is mounted, loads its list and starts with an
\* empty cart (part_007 33)
navigate(s, page) ==
    /\ CanStart(s)
    /\ page \in (IF s \in Admins THEN AdminPages \cup AssetPages ELSE GuestPages)
    /\ \/ view[s].page # page \/ view[s].rows # Mounted(s, page).rows
       \/ cart[s] # <<>> \/ modal[s] # NoModal
    /\ view' = [view EXCEPT ![s] = Mounted(s, page)]
    /\ cart' = [cart EXCEPT ![s] = <<>>]
    /\ modal' = [modal EXCEPT ![s] = NoModal]
    /\ toast' = NoToast
    /\ done' = NoDone
    /\ UNCHANGED <<store, proc, pre, history, serial, now, overdue, users, user, profile>>

\* RequestManagement.tsx 34-36, 54-86: the Requests page of admin s loads its list,
\* the issued-rows lookups of the requests in failed failing (logged only, 49)
loadRequests(s, failed) ==
    /\ s \in Admins /\ CanStart(s)
    /\ failed \subseteq 1..Len(requests)
    /\ view' = [view EXCEPT ![s] = [page |-> "requests",
                                    rows |-> requestsWithDetails(requests, issued_items, failed)]]
    /\ Once(s, [Idle EXCEPT !.op = "load"], NoToast)
    /\ UNCHANGED <<store, history, serial, now, overdue, cart, modal, users, user, profile>>

\* ======================= guest: submitRequest =======================
\* StockBrowser (part_007) 91-119: a cart line asks for an item of the list the page
\* holds, and for no more than the list shows of it
inCart(items, rows) ==
    \A k \in 1..Len(items) :
        \E n \in 1..Len(rows) :
            /\ rows[n].item_id = items[k].item_id
            /\ items[k].quantity <= rows[n].quantity

\* the smaller of two quantities (Math.min)
min(a, b) == IF a <= b THEN a ELSE b

\* the place of item itemId in a cart, 0 when it is not there
inCartAt(c, itemId) ==
    IF \E k \in 1..Len(c) : c[k].item_id = itemId
    THEN CHOOSE k \in 1..Len(c) : c[k].item_id = itemId
    ELSE 0

\* StockBrowser (part_007) 91-105 behind Add to Cart (281-285: quantity 1): a line
\* of the cart is the list's row with the quantity asked for
addToCart(u, n) ==
    /\ u \in Guests /\ CanStart(u)
    /\ view[u].page = "browser"
    /\ n \in 1..Len(view[u].rows)
    /\ LET item == view[u].rows[n]
           k == inCartAt(cart[u], item.item_id)
           new == IF k # 0
                  THEN [cart[u] EXCEPT ![k].requestQuantity = min(@ + 1, item.quantity)]
                  ELSE Append(cart[u], [item_id |-> item.item_id, quantity |-> item.quantity,
                                        requestQuantity |-> min(1, item.quantity)])
       IN /\ new # cart[u]
          /\ cart' = [cart EXCEPT ![u] = new]
    /\ toast' = NoToast
    /\ done' = NoDone
    /\ UNCHANGED <<store, view, proc, pre, history, serial, now, overdue, modal, users, user, profile>>

\* 123-125
removeFromCart(c, itemId) == SelectSeq(c, LAMBDA line : line.item_id # itemId)

removesLine_never(quantity) == FALSE

\* 108: if (quantity <= 0)
removesLine(quantity) == quantity <= 0

\* the quantity the list of the page shows for itemId, 0 when it has no such row
\* (116: safeItems.find(...)?.quantity || 0)
maxQuantity(rows, itemId) ==
    IF \E n \in 1..Len(rows) : rows[n].item_id = itemId
    THEN (CHOOSE row \in {rows[n] : n \in 1..Len(rows)} : row.item_id = itemId).quantity
    ELSE 0

\* 107-120
updatedCart(c, rows, itemId, quantity) ==
    IF removesLine(quantity)
    THEN removeFromCart(c, itemId)
    ELSE [k \in 1..Len(c) |->
            IF c[k].item_id = itemId
            THEN [c[k] EXCEPT !.requestQuantity = min(quantity, maxQuantity(rows, itemId))]
            ELSE c[k]]

\* the minus (332-337) and plus (341-348, disabled at the quantity available)
\* buttons of a cart line, step = -1 or 1
updateCartQuantity(u, k, step) ==
    /\ u \in Guests /\ CanStart(u)
    /\ view[u].page = "browser"
    /\ k \in 1..Len(cart[u])
    /\ step \in {-1, 1}
    /\ step = 1 => cart[u][k].requestQuantity < cart[u][k].quantity
    /\ cart' = [cart EXCEPT ![u] = updatedCart(cart[u], view[u].rows, cart[u][k].item_id,
                                              cart[u][k].requestQuantity + step)]
    /\ toast' = NoToast
    /\ done' = NoDone
    /\ UNCHANGED <<store, view, proc, pre, history, serial, now, overdue, modal, users, user, profile>>

\* the Remove button of a cart line (349-354)
removeLine(u, k) ==
    /\ u \in Guests /\ CanStart(u)
    /\ view[u].page = "browser"
    /\ k \in 1..Len(cart[u])
    /\ cart' = [cart EXCEPT ![u] = removeFromCart(cart[u], cart[u][k].item_id)]
    /\ toast' = NoToast
    /\ done' = NoDone
    /\ UNCHANGED <<store, view, proc, pre, history, serial, now, overdue, modal, users, user, profile>>

\* 140-144: the lines of the request made of a cart
requestItems(c) ==
    [k \in 1..Len(c) |-> [item_id |-> c[k].item_id, quantity |-> c[k].requestQuantity]]

\* StockBrowser (part_007) 128-163 with the lines of the cart as they will be
\* stored; the cart is emptied (157)
submitRequest(u, items) ==
    /\ u \in Guests /\ CanStart(u)
    /\ view[u].page = "browser"
    /\ Len(items) # 0
    /\ inCart(items, view[u].rows)
    /\ Cardinality({r \in 1..Len(requests) : requests[r].user_id = u}) < MaxRequests
    /\ requests' = Append(requests, [user_id |-> u, items |-> items, status |-> "pending",
                                     admin_notes |-> NULL])
    /\ submitted' = Append(submitted, [stock_items |-> stock_items, ledger |-> ledger])
    /\ cart' = [cart EXCEPT ![u] = <<>>]
    /\ Once(u, [Idle EXCEPT !.op = "submit", !.id = Len(requests) + 1, !.lines = items],
            Success(u))
    /\ UNCHANGED <<stock_items, issued_items, item_transfers, discarded_items, view,
                   ledger, initial, serial, now, overdue, purchase_history, assets, modal, users, user, profile>>

\* 128-163 called on the cart of the page
submitCart(u) == submitRequest(u, requestItems(cart[u]))

\* 129-132: the cart is empty
submitEmpty(u) ==
    /\ u \in Guests /\ CanStart(u)
    /\ view[u].page = "browser"
    /\ Len(cart[u]) = 0
    /\ Once(u, [Idle EXCEPT !.op = "submit"],
            [NoToast EXCEPT !.session = u, !.kind = "EmptyCart"])
    /\ UNCHANGED <<store, view, history, serial, now, overdue, cart, modal, users, user, profile>>

\* 154, 159-162: the insert fails; the cart is kept
submitError(u) ==
    /\ u \in Guests /\ CanStart(u)
    /\ view[u].page = "browser"
    /\ Len(cart[u]) # 0
    /\ Once(u, [Idle EXCEPT !.op = "submit", !.lines = requestItems(cart[u])], Failed(u))
    /\ UNCHANGED <<store, view, history, serial, now, overdue, cart, modal, users, user, profile>>

\* ======================= admin: handleUpdateRequestItems =======================
\* RequestDetailsModal (RequestManagement.tsx 511-557, 584-602): the lines the dialog
\* can save, a quantity typed or stepped to 1 or more on one line, or one line of
\* several deleted
Without(items, k) == [n \in 1..(Len(items) - 1) |-> IF n < k THEN items[n] ELSE items[n + 1]]

editableItems(items) ==
    {[items EXCEPT ![k].quantity = q] : k \in 1..Len(items), q \in 1..MaxReqQty}
    \cup {Without(items, k) : k \in {n \in 1..Len(items) : Len(items) > 1}}

\* RequestManagement.tsx 94-109 behind the Save and Delete Item buttons, which the
\* dialog shows for a request its copy has as pending (576, 586)
handleUpdateRequestItems(s, requestId, updatedItems) ==
    /\ s \in Admins /\ CanStart(s)
    /\ view[s].page = "requests"
    /\ requestId \in 1..Len(view[s].rows)
    /\ view[s].rows[requestId].status = "pending"
    /\ updatedItems \in editableItems(view[s].rows[requestId].items)
    /\ LET reqs == [requests EXCEPT ![requestId].items = updatedItems]
       IN /\ requests' = reqs
          /\ Reload(s, "requests", reqs, issued_items)
    /\ Once(s, [Idle EXCEPT !.op = "editLines", !.id = requestId, !.lines = updatedItems],
            Success(s))
    /\ UNCHANGED <<stock_items, issued_items, item_transfers, discarded_items, history,
                   serial, now, overdue, purchase_history, assets, cart, modal, users, user, profile>>

\* 96-101, 105-108: the update fails
updateItemsError(s, requestId, updatedItems) ==
    /\ s \in Admins /\ CanStart(s)
    /\ view[s].page = "requests"
    /\ requestId \in 1..Len(view[s].rows)
    /\ view[s].rows[requestId].status = "pending"
    /\ updatedItems \in editableItems(view[s].rows[requestId].items)
    /\ Once(s, [Idle EXCEPT !.op = "editLines", !.id = requestId, !.lines = updatedItems],
            Failed(s))
    /\ UNCHANGED <<store, view, history, serial, now, overdue, cart, modal, users, user, profile>>

\* ======================= admin: handleUpdateRequestStatus =======================
insufficient_zero(available, requested) == available <= 0

\* RequestManagement.tsx 142: stockData.quantity < item.quantity
insufficient(available, requested) == available < requested

insufficientToast_swapped(s, line, available) ==
    [session |-> s, kind |-> "InsufficientStock", item |-> line.item_id,
     available |-> line.quantity, requested |-> available]

\* RequestManagement.tsx 143: the toast names the item, the quantity read and the
\* quantity of the line
insufficientToast(s, line, available) ==
    [session |-> s, kind |-> "InsufficientStock", item |-> line.item_id,
     available |-> available, requested |-> line.quantity]

\* RequestManagement.tsx 128: items || request.items
itemsToProcess(hasItems, items, request) == IF hasItems THEN items ELSE request.items

deductedQuantity_double(current, quantity) == current - 2 * quantity
deductedQuantity_none(current, quantity) == current

\* RequestManagement.tsx 164: currentItem.quantity - item.quantity
deductedQuantity(current, quantity) == current - quantity

admin_notes_dropped(adminNotes) == NULL

\* RequestManagement.tsx 183: adminNotes || null
admin_notes(adminNotes) == IF adminNotes = "" THEN NULL ELSE adminNotes

\* the clicks that call handleUpdateRequestStatus: the list row's Approve and Reject
\* (375, 382: no notes, no items) and the details dialog's Reject (639: notes) and
\* Approve (645: notes and editableItems)
RowClicks ==
    {[status |-> st, adminNotes |-> "", hasItems |-> FALSE] : st \in {"approved", "rejected"}}
ModalClicks ==
    {[status |-> "rejected", adminNotes |-> n, hasItems |-> FALSE] : n \in Notes}
    \cup {[status |-> "approved", adminNotes |-> n, hasItems |-> TRUE] : n \in Notes}

\* the click on Approve / Reject and the first store call, the select of the
\* request's items (111-128)
handleUpdateRequestStatus(s, r, status, adminNotes, hasItems) ==
    /\ s \in Admins /\ CanStart(s)
    /\ view[s].page = "requests"
    /\ r \in 1..Len(view[s].rows)
    /\ view[s].rows[r].status = "pending"
    /\ status \in {"approved", "rejected"}
    /\ LET items == IF hasItems THEN view[s].rows[r].items ELSE NoLines
           lines == itemsToProcess(hasItems, items, requests[r])
       IN Begin(s, [Idle EXCEPT !.op = status, !.id = r, !.status = status,
                                !.notes = adminNotes,
                                !.hasItems = hasItems, !.lines = lines, !.k = 1,
                                !.pc = IF status = "approved" /\ Len(lines) > 0
                                       THEN "checkStock" ELSE "updateRequest"])
    /\ UNCHANGED <<store, view, history, serial, now, overdue, cart, modal, users, user, profile>>

\* 119-126: the select of the request fails
requestError(s, r, status, adminNotes) ==
    /\ s \in Admins /\ CanStart(s)
    /\ view[s].page = "requests"
    /\ r \in 1..Len(view[s].rows)
    /\ view[s].rows[r].status = "pending"
    /\ status \in {"approved", "rejected"}
    /\ Once(s, [Idle EXCEPT !.op = status, !.id = r, !.status = status,
                            !.notes = adminNotes], Failed(s))
    /\ UNCHANGED <<store, view, history, serial, now, overdue, cart, modal, users, user, profile>>

\* 133-146: one pass of the availability loop
checkStock(s) ==
    /\ proc[s].pc = "checkStock"
    /\ LET line == proc[s].lines[proc[s].k]
           stockData == stock_items[line.item_id]
       IN IF insufficient(stockData, line.quantity)
          THEN Finish(s, insufficientToast(s, line, stockData))
          ELSE Continue(s, IF proc[s].k < Len(proc[s].lines)
                           THEN [proc[s] EXCEPT !.k = @ + 1]
                           ELSE [proc[s] EXCEPT !.k = 1, !.pc = "fetchCurrent"])
    /\ UNCHANGED <<store, view, history, serial, now, overdue, cart, modal, users, user, profile>>

\* 134-140: the select of the availability loop fails
stockError(s) == Throw(s, "checkStock")

\* 151-161: the select of the deduction loop fails
fetchError(s) == Throw(s, "fetchCurrent")

\* 167-176: the update of the deduction loop fails
stockUpdateError(s) == Throw(s, "updateStock")

\* 193-198: the update of the request fails
updateRequestError(s) == Throw(s, "updateRequest")

\* 151-155: select the current quantity of the line's item
fetchCurrent(s) ==
    /\ proc[s].pc = "fetchCurrent"
    /\ LET line == proc[s].lines[proc[s].k]
       IN Continue(s, [proc[s] EXCEPT !.cur = stock_items[line.item_id],
                                      !.pc = "updateStock"])
    /\ UNCHANGED <<store, view, history, serial, now, overdue, cart, modal, users, user, profile>>

\* 164-170: write the new quantity of the line's item
updateStock(s) ==
    /\ proc[s].pc = "updateStock"
    /\ LET line == proc[s].lines[proc[s].k]
       IN /\ stock_items' = [stock_items EXCEPT
                               ![line.item_id] = deductedQuantity(proc[s].cur, line.quantity)]
          /\ Commit(line.item_id, "deduct", proc[s].id, line.quantity)
    /\ Continue(s, IF proc[s].k < Len(proc[s].lines)
                   THEN [proc[s] EXCEPT !.k = @ + 1, !.cur = 0, !.pc = "fetchCurrent"]
                   ELSE [proc[s] EXCEPT !.k = 0, !.cur = 0, !.pc = "updateRequest"])
    /\ UNCHANGED <<requests, issued_items, item_transfers, discarded_items, view,
                   initial, submitted, serial, now, overdue, purchase_history, assets,
                   cart, modal, users, user, profile>>

\* 181-198: write status (and items when supplied), then reload the list
updateRequest(s) ==
    /\ proc[s].pc = "updateRequest"
    /\ LET r == proc[s].id
           row == [requests[r] EXCEPT !.status = proc[s].status,
                                      !.admin_notes = admin_notes(proc[s].notes),
                                      !.items = IF proc[s].hasItems THEN proc[s].lines ELSE @]
           reqs == [requests EXCEPT ![r] = row]
       IN /\ requests' = reqs
          /\ Reload(s, "requests", reqs, issued_items)
    /\ Finish(s, Success(s))
    /\ UNCHANGED <<stock_items, issued_items, item_transfers, discarded_items, history,
                   serial, now, overdue, purchase_history, assets, cart, modal, users, user, profile>>

\* ======================= admin: handleIssueItems =======================
\* the browser's local wall clock at instant t, and the instant of a local wall clock
utcOffset(t) == IF t >= DstStart THEN DstShift ELSE 0
toLocal(t) == t + utcOffset(t)
fromLocal(w) == IF w >= DstStart + DstShift THEN w - DstShift ELSE w

returnDate_elapsed(t, returnDays) == t + returnDays * DayLen

\* RequestManagement.tsx 209-210: returnDate.setDate(returnDate.getDate() + returnDays)
returnDate(t, returnDays) == fromLocal(toLocal(t) + returnDays * DayLen)

\* RequestManagement.tsx 212-220: one issued row per line of the request as the
\* session's list has it
issuedRows(request, requestId, due) ==
    [n \in 1..Len(request.items) |->
        [item_id |-> request.items[n].item_id, user_id |-> request.user_id,
         request_id |-> requestId, quantity_issued |-> request.items[n].quantity,
         return_due |-> due, returned |-> FALSE, return_date |-> NULL]]

\* RequestManagement.tsx 205-236, behind the Issue Items button (390-400)
handleIssueItems(s, r, returnDays) ==
    /\ s \in Admins /\ CanStart(s)
    /\ view[s].page = "requests"
    /\ r \in 1..Len(view[s].rows)
    /\ view[s].rows[r].status = "approved"
    /\ ~view[s].rows[r].is_issued
    /\ Len(issued_items) + Len(view[s].rows[r].items) <= MaxIssuedRows
    /\ LET issued == issued_items \o issuedRows(view[s].rows[r], r, returnDate(now, returnDays))
       IN /\ issued_items' = issued
          /\ Reload(s, "requests", requests, issued)
    /\ Once(s, [Idle EXCEPT !.op = "issue", !.id = r, !.lines = view[s].rows[r].items,
                            !.qty = returnDays], Success(s))
    /\ modal' = [modal EXCEPT ![s] = NoModal]
    /\ UNCHANGED <<stock_items, requests, item_transfers, discarded_items, history,
                   serial, now, overdue, purchase_history, assets, cart, users, user,
                   profile>>

\* 222-226, 232-235: the insert of the issued rows fails
issueError(s, r, returnDays) ==
    /\ s \in Admins /\ CanStart(s)
    /\ view[s].page = "requests"
    /\ r \in 1..Len(view[s].rows)
    /\ view[s].rows[r].status = "approved"
    /\ ~view[s].rows[r].is_issued
    /\ Once(s, [Idle EXCEPT !.op = "issue", !.id = r, !.lines = view[s].rows[r].items,
                            !.qty = returnDays], Failed(s))
    /\ UNCHANGED <<store, view, history, serial, now, overdue, cart, modal, users, user, profile>>

\* ======================= admin: IssueItemsModal =======================
\* RequestManagement.tsx 710: setReturnDays(parseInt(e.target.value) || 7)
setReturnDays(typed) == IF typed = 0 THEN ReturnDays ELSE typed

validDays_any(returnDays) == TRUE

\* 706-712: the number field is required with min 1 and max 365, and the form
\* (703) submits only when its fields are valid
validDays(returnDays) == MinReturnDays <= returnDays /\ returnDays <= MaxReturnDays

\* 689-692: the dialog's submit with a valid field calls onIssue
issueSubmit(s, r, typed) ==
    /\ validDays(setReturnDays(typed))
    /\ handleIssueItems(s, r, setReturnDays(typed))

\* the dialog's submit with the field out of range: the form does not submit and
\* handleSubmit is not called
issueBlocked(s, r, typed) ==
    /\ ~validDays(setReturnDays(typed))
    /\ s \in Admins /\ CanStart(s)
    /\ view[s].page = "requests"
    /\ r \in 1..Len(view[s].rows)
    /\ view[s].rows[r].status = "approved"
    /\ ~view[s].rows[r].is_issued
    /\ Once(s, [Idle EXCEPT !.op = "issue", !.id = r, !.lines = view[s].rows[r].items,
                            !.qty = setReturnDays(typed)],
            [NoToast EXCEPT !.session = s, !.kind = "ValidationError"])
    /\ UNCHANGED <<store, view, history, serial, now, overdue, cart, modal, users, user, profile>>

\* ======================= admin: RequestDetailsModal =======================
\* a click in the dialog of session s that calls no handler
Local(s) ==
    /\ s \in Admins /\ CanStart(s)
    /\ view[s].page = "requests"
    /\ toast' = NoToast
    /\ done' = NoDone
    /\ UNCHANGED <<store, view, proc, pre, history, serial, now, overdue, cart, users, user, profile>>

\* RequestManagement.tsx 366, 461-464: View Details selects the row's request; the
\* dialog's editableItems start as request.items, the same array of the same line
\* objects
setSelectedRequest(s, r) ==
    /\ r \in 1..Len(view[s].rows)
    /\ modal[s].request # r
    /\ modal' = [modal EXCEPT ![s] = [request |-> r, status |-> view[s].rows[r].status,
                                      items |-> view[s].rows[r].items,
                                      editableItems |-> view[s].rows[r].items,
                                      editingItemIndex |-> 0]]
    /\ Local(s)

\* 576-584: Edit Quantity on a line, shown while the dialog's request is pending
setEditingItemIndex(s, index) ==
    /\ modal[s].status = "pending"
    /\ index \in 1..Len(modal[s].editableItems)
    /\ modal[s].editingItemIndex # index
    /\ modal' = [modal EXCEPT ![s].editingItemIndex = index]
    /\ Local(s)

\* 513-547: minus (quantity - 1 while above 1), the number field (parseInt || 1)
\* and plus (quantity + 1) copy the array of lines ([...editableItems]) and assign
\* the quantity of the line object at the index, which is the object request.items
\* holds at that index too (the list row is that request object as well; nothing
\* here reads the row's lines before the list is loaded again)
setQuantity(s, value) ==
    /\ modal[s].editingItemIndex # 0
    /\ value \in 1..MaxEditQty
    /\ LET index == modal[s].editingItemIndex
       IN /\ modal[s].editableItems[index].quantity # value
          /\ modal' = [modal EXCEPT ![s].editableItems[index].quantity = value,
                                    ![s].items[index].quantity = value]
    /\ Local(s)

\* 548-558: Save ends the edit and calls handleUpdateRequestItems (94-109) with
\* editableItems
saveItems(s) ==
    /\ s \in Admins /\ CanStart(s)
    /\ view[s].page = "requests"
    /\ modal[s].editingItemIndex # 0
    /\ LET r == modal[s].request
           reqs == [requests EXCEPT ![r].items = modal[s].editableItems]
       IN /\ requests' = reqs
          /\ Reload(s, "requests", reqs, issued_items)
          /\ Once(s, [Idle EXCEPT !.op = "editLines", !.id = r,
                                  !.lines = modal[s].editableItems], Success(s))
    /\ modal' = [modal EXCEPT ![s].editingItemIndex = 0]
    /\ UNCHANGED <<stock_items, issued_items, item_transfers, discarded_items, history,
                   serial, now, overdue, purchase_history, assets, cart, users,
                   user, profile>>

\* 559-569: Cancel sets editableItems to request.items and ends the edit
cancelEdit(s) ==
    /\ s \in Admins /\ CanStart(s)
    /\ view[s].page = "requests"
    /\ modal[s].editingItemIndex # 0
    /\ modal' = [modal EXCEPT ![s].editableItems = modal[s].items,
                              ![s].editingItemIndex = 0]
    /\ Once(s, [Idle EXCEPT !.op = "cancelEdit", !.id = modal[s].request,
                            !.lines = modal[s].items], NoToast)
    /\ UNCHANGED <<store, view, history, serial, now, overdue, cart, users, user, profile>>

\* 636-649: the dialog's Approve, shown while the dialog's request is pending, calls
\* handleUpdateRequestStatus (111-128) with the notes and editableItems
onUpdateStatus(s, adminNotes) ==
    /\ s \in Admins /\ CanStart(s)
    /\ view[s].page = "requests"
    /\ modal[s].status = "pending"
    /\ LET r == modal[s].request
           lines == itemsToProcess(TRUE, modal[s].editableItems, requests[r])
       IN Begin(s, [Idle EXCEPT !.op = "approved", !.id = r, !.status = "approved",
                                !.notes = adminNotes, !.hasItems = TRUE, !.lines = lines,
                                !.k = 1,
                                !.pc = IF Len(lines) > 0 THEN "checkStock"
                                                        ELSE "updateRequest"])
    /\ UNCHANGED <<store, view, history, serial, now, overdue, cart, modal, users, user, profile>>

\* 630-635, 431-433: Close unselects the request
onClose(s) ==
    /\ modal[s] # NoModal
    /\ modal' = [modal EXCEPT ![s] = NoModal]
    /\ Local(s)

\* ======================= admin: handleReturnItem =======================
restoredQuantity_forgotten(current, quantity_issued) == current
restoredQuantity_one(current, quantity_issued) == current + 1

\* IssuedItemsManagement.tsx 124: currentItem.quantity + issuedItem.quantity_issued
restoredQuantity(current, quantity_issued) == current + quantity_issued

\* the click on Mark Returned (365-372) and 93-97: select item_id, quantity_issued
handleReturnItem(s, id) ==
    /\ s \in Admins /\ CanStart(s)
    /\ view[s].page = "issued"
    /\ id \in 1..Len(view[s].rows)
    /\ ~view[s].rows[id].returned
    /\ Begin(s, [Idle EXCEPT !.op = "return", !.pc = "markReturned", !.id = id,
                             !.item = issued_items[id].item_id,
                             !.qty = issued_items[id].quantity_issued])
    /\ UNCHANGED <<store, view, history, serial, now, overdue, cart, modal, users, user, profile>>

\* 102-109: update returned = true and return_date, of which the model keeps only
\* that it holds an instant
markReturned(s) ==
    /\ proc[s].pc = "markReturned"
    /\ issued_items' = [issued_items EXCEPT ![proc[s].id].returned = TRUE,
                                            ![proc[s].id].return_date = "set"]
    /\ Continue(s, [proc[s] EXCEPT !.pc = "fetchStock"])
    /\ UNCHANGED <<stock_items, requests, item_transfers, discarded_items, view,
                   history, serial, now, overdue, purchase_history, assets, cart, modal, users, user, profile>>

\* 114-118: select the current quantity of the stock item
fetchStock(s) ==
    /\ proc[s].pc = "fetchStock"
    /\ Continue(s, [proc[s] EXCEPT !.cur = stock_items[proc[s].item],
                                   !.pc = "restoreStock"])
    /\ UNCHANGED <<store, view, history, serial, now, overdue, cart, modal, users, user, profile>>

\* 93-99: the select of the issued row fails
returnFetchError(s, id) ==
    /\ s \in Admins /\ CanStart(s)
    /\ view[s].page = "issued"
    /\ id \in 1..Len(view[s].rows)
    /\ ~view[s].rows[id].returned
    /\ Once(s, [Idle EXCEPT !.op = "return", !.id = id,
                            !.item = issued_items[id].item_id,
                            !.qty = issued_items[id].quantity_issued], Failed(s))
    /\ UNCHANGED <<store, view, history, serial, now, overdue, cart, modal, users, user, profile>>

\* 102-111: the update of the issued row fails
returnError(s) == Throw(s, "markReturned")

\* the handler goes on after an error it only logs (120-121, 132-134), to the
\* success toast and the reload of 137-138
Logged(s, pc) ==
    /\ proc[s].pc = pc
    /\ Reload(s, "issued", requests, issued_items)
    /\ Finish(s, Success(s))
    /\ UNCHANGED <<store, history, serial, now, overdue, cart, modal, users, user, profile>>

\* 114-121: the select of the stock item fails
fetchStockError(s) == Logged(s, "fetchStock")

\* 127-134: the update of the stock item fails
restoreStockError(s) == Logged(s, "restoreStock")

\* 124-138: write the restored quantity, then reload the list
restoreStock(s) ==
    /\ proc[s].pc = "restoreStock"
    /\ stock_items' = [stock_items EXCEPT
                         ![proc[s].item] = restoredQuantity(proc[s].cur, proc[s].qty)]
    /\ Commit(proc[s].item, "credit", proc[s].id, proc[s].qty)
    /\ Reload(s, "issued", requests, issued_items)
    /\ Finish(s, Success(s))
    /\ UNCHANGED <<requests, issued_items, item_transfers, discarded_items, initial,
                   submitted, serial, now, overdue, purchase_history, assets, cart, modal, users, user, profile>>

\* ======================= admin: handleRestockItem =======================
restockedQuantity_overwrite(current, quantityToAdd) == quantityToAdd
restockedQuantity_twice(current, quantityToAdd) == current + 2 * quantityToAdd

\* StockManagement (part_005) 194: currentItem.quantity + quantityToAdd
restockedQuantity(current, quantityToAdd) == current + quantityToAdd

\* RestockModal.handleSubmit (779-785: quantity > 0) and 185-189: select quantity
handleRestockItem(s, itemId, quantityToAdd) ==
    /\ s \in Admins /\ CanStart(s)
    /\ view[s].page = "stock"
    /\ quantityToAdd > 0
    /\ CountOver(ledger, "restock", Items) < MaxRestocks
    /\ Begin(s, [Idle EXCEPT !.op = "restock", !.pc = "restockUpdate", !.item = itemId,
                             !.qty = quantityToAdd, !.cur = stock_items[itemId]])
    /\ UNCHANGED <<store, view, history, serial, now, overdue, cart, modal, users, user, profile>>

\* 185-191: the select of the quantity fails
restockFetchError(s, itemId, quantityToAdd) ==
    /\ s \in Admins /\ CanStart(s)
    /\ view[s].page = "stock"
    /\ quantityToAdd > 0
    /\ Once(s, [Idle EXCEPT !.op = "restock", !.item = itemId, !.qty = quantityToAdd],
            Failed(s))
    /\ UNCHANGED <<store, view, history, serial, now, overdue, cart, modal, users, user, profile>>

\* 197-205: the update of the quantity fails
restockUpdateError(s) == Throw(s, "restockUpdate")

\* 209-215: the purchase row
purchaseRow(itemId, quantityToAdd) == [item_id |-> itemId, quantity_added |-> quantityToAdd]

\* 194-232: write the new quantity and send the purchase row without awaiting it;
\* recorded tells whether that insert succeeds, and the handler does not look
restockWrite(s, recorded) ==
    /\ proc[s].pc = "restockUpdate"
    /\ stock_items' = [stock_items EXCEPT
                         ![proc[s].item] = restockedQuantity(proc[s].cur, proc[s].qty)]
    /\ purchase_history' = IF recorded
                           THEN Append(purchase_history,
                                       purchaseRow(proc[s].item, proc[s].qty))
                           ELSE purchase_history
    /\ Commit(proc[s].item, "restock", 0, proc[s].qty)
    /\ Finish(s, Success(s))
    /\ UNCHANGED <<requests, issued_items, item_transfers, discarded_items, view,
                   initial, submitted, serial, now, overdue, assets, cart, modal, users, user, profile>>

restockUpdate(s) == restockWrite(s, TRUE)

\* 216-227: the insert into purchase_history fails
purchaseError(s) == restockWrite(s, FALSE)

\* ======================= admin: handleUpdateItem =======================
\* StockManagement (part_005) 133-161 behind the Save of StockItemModal (514-539):
\* the payload carries the form's quantity (140; the field of 606-616, min 0), and
\* the update writes it
handleUpdateItem(s, itemId, quantity) ==
    /\ s \in Admins /\ CanStart(s)
    /\ view[s].page = "stock"
    /\ quantity \in 0..MaxEditQty
    /\ stock_items' = [stock_items EXCEPT ![itemId] = quantity]
    /\ Once(s, [Idle EXCEPT !.op = "update", !.item = itemId, !.qty = quantity], Success(s))
    /\ UNCHANGED <<requests, issued_items, item_transfers, discarded_items, view,
                   history, serial, now, overdue, purchase_history, assets, cart, modal, users, user, profile>>

\* 148-153, 157-160: the update fails
updateItemError(s, itemId, quantity) ==
    /\ s \in Admins /\ CanStart(s)
    /\ view[s].page = "stock"
    /\ quantity \in 0..MaxEditQty
    /\ Once(s, [Idle EXCEPT !.op = "update", !.item = itemId, !.qty = quantity], Failed(s))
    /\ UNCHANGED <<store, view, history, serial, now, overdue, cart, modal, users, user, profile>>

\* ======================= guest: handleTransferItem =======================
cannotTransfer_never(issuedItem) == FALSE

\* MyItems.tsx 112: if (issuedItem.returned)
cannotTransfer(issuedItem) == issuedItem.returned

\* the Transfer Item submit (390-400, 451-458) and 104-115: select the row and
\* refuse a returned one
handleTransferItem(u, issuedItemId, toUserId) ==
    /\ u \in Guests /\ CanStart(u)
    /\ view[u].page = "myitems"
    /\ issuedItemId \in 1..Len(view[u].rows)
    /\ view[u].rows[issuedItemId].shown /\ ~view[u].rows[issuedItemId].returned
    /\ toUserId \in Guests \ {u}
    /\ Len(item_transfers) < MaxTransfers
    /\ LET p == [Idle EXCEPT !.op = "transfer", !.pc = "transferUpdate",
                             !.id = issuedItemId, !.to = toUserId]
       IN IF cannotTransfer(issued_items[issuedItemId])
          THEN Once(u, p, [NoToast EXCEPT !.session = u, !.kind = "InvalidState"])
          ELSE Begin(u, p)
    /\ UNCHANGED <<store, view, history, serial, now, overdue, cart, modal, users, user, profile>>

\* 118-121: update user_id
transferUpdate(u) ==
    /\ proc[u].pc = "transferUpdate"
    /\ issued_items' = [issued_items EXCEPT ![proc[u].id].user_id = proc[u].to]
    /\ Continue(u, [proc[u] EXCEPT !.pc = "transferInsert"])
    /\ UNCHANGED <<stock_items, requests, item_transfers, discarded_items, view,
                   history, serial, now, overdue, purchase_history, assets, cart, modal, users, user, profile>>

\* 126-140: insert the transfer row, then reload the list
transferInsert(u) ==
    /\ proc[u].pc = "transferInsert"
    /\ item_transfers' = Append(item_transfers,
                            [issued_item_id |-> proc[u].id, from_user_id |-> u,
                             to_user_id |-> proc[u].to])
    /\ Reload(u, "myitems", requests, issued_items)
    /\ Finish(u, Success(u))
    /\ UNCHANGED <<stock_items, requests, issued_items, discarded_items, history, serial,
                   now, overdue, purchase_history, assets, cart, modal, users, user, profile>>

\* 135, 141-144: the insert of the transfer row fails after user_id was written
transferError(u) == Throw(u, "transferInsert")

\* ======================= admin: discard (Stock Ledger) =======================
discardedQuantity_one(current, quantity) == current - 1

\* deduct: writes current - quantity
discardedQuantity(current, quantity) == current - quantity

\* requires 0 < quantity <= current quantity
discardAllowed(current, quantity) == 0 < quantity /\ quantity <= current

\* discard(itemId, quantity, reason, byUser, notes): read the quantity and check it
discard(s, itemId, quantity, reason) ==
    /\ s \in Admins /\ CanStart(s)
    /\ view[s].page = "stock"
    /\ reason \in Reasons
    /\ CountOver(ledger, "discard", Items) < MaxDiscards
    /\ LET p == [Idle EXCEPT !.op = "discard", !.pc = "discardDeduct", !.item = itemId,
                             !.qty = quantity, !.reason = reason,
                             !.cur = stock_items[itemId]]
       IN IF discardAllowed(stock_items[itemId], quantity)
          THEN Begin(s, p)
          ELSE Once(s, p, [session |-> s, kind |-> "InsufficientStock", item |-> itemId,
                           available |-> stock_items[itemId], requested |-> quantity])
    /\ UNCHANGED <<store, view, history, serial, now, overdue, cart, modal, users, user, profile>>

\* the deduct: write current - quantity
discardDeduct(s) ==
    /\ proc[s].pc = "discardDeduct"
    /\ stock_items' = [stock_items EXCEPT
                         ![proc[s].item] = discardedQuantity(proc[s].cur, proc[s].qty)]
    /\ Commit(proc[s].item, "discard", 0, proc[s].qty)
    /\ Continue(s, [proc[s] EXCEPT !.pc = "discardAppend"])
    /\ UNCHANGED <<requests, issued_items, item_transfers, discarded_items, view,
                   initial, submitted, serial, now, overdue, purchase_history, assets,
                   cart, modal, users, user, profile>>

\* the DiscardedItem audit row
discardAppend(s) ==
    /\ proc[s].pc = "discardAppend"
    /\ discarded_items' = Append(discarded_items,
                             [item_id |-> proc[s].item, quantity_discarded |-> proc[s].qty,
                              reason |-> proc[s].reason, discarded_by |-> s])
    /\ Finish(s, Success(s))
    /\ UNCHANGED <<stock_items, requests, issued_items, item_transfers, view, history,
                   serial, now, overdue, purchase_history, assets, cart, modal, users, user, profile>>

\* ======================= overdue figures =======================
\* date-fns isAfter: the first instant is later than the second
isAfter(date, dateToCompare) == date > dateToCompare

\* the quotient rounded toward zero
truncate(a, b) == IF a >= 0 THEN a \div b ELSE 0 - ((0 - a) \div b)

\* date-fns differenceInDays: the full days between the two dates on the local wall
\* clock (a day across a clock change is not 24 hours long)
differenceInDays(dateLeft, dateRight) ==
    truncate(toLocal(dateLeft) - toLocal(dateRight), DayLen)

\* IssuedItemsManagement.tsx 53-65: the row with is_overdue and days_overdue, the
\* clock read once for each
issuedItemWithDetails(id, item, t1, t2) ==
    LET isOverdue == ~item.returned /\ isAfter(t1, item.return_due)
        daysOverdue == IF isOverdue THEN differenceInDays(t2, item.return_due) ELSE 0
    IN [id |-> id, return_due |-> item.return_due, returned |-> item.returned,
        is_overdue |-> isOverdue, days_overdue |-> daysOverdue]

\* MyItems.tsx 60-72: the same figures in the guest's list
myItemWithDetails(id, item, t1, t2) ==
    LET isOverdue == ~item.returned /\ isAfter(t1, item.return_due)
        daysOverdue == IF isOverdue THEN differenceInDays(t2, item.return_due) ELSE 0
    IN [id |-> id, return_due |-> item.return_due, returned |-> item.returned,
        is_overdue |-> isOverdue, days_overdue |-> daysOverdue]

\* AdminDashboard.tsx 125-132: the filter and the days of a row, on one clock reading
overdueItem(id, item, t) ==
    LET isOverdue == ~item.returned /\ item.return_due < t
        daysOverdue == (t - item.return_due) \div DayLen
    IN [id |-> id, return_due |-> item.return_due, returned |-> item.returned,
        is_overdue |-> isOverdue, days_overdue |-> IF isOverdue THEN daysOverdue ELSE 0]

IsListed(row) == row.is_overdue

\* a rendering of view v that read the clock at t1 and t2: figures taken at an
\* earlier hour are no longer on screen
Rendered(v, t1, t2, rows) ==
    /\ t2 <= MaxDays * DayLen
    /\ now' = t2
    /\ overdue' = [w \in OverdueViews |->
                     IF w = v THEN [at |-> <<t1, t2>>, rows |-> rows]
                     ELSE IF t2 = now THEN overdue[w] ELSE NoFigures]
    /\ toast' = NoToast
    /\ done' = NoDone
    /\ UNCHANGED <<store, view, proc, pre, history, serial, cart, modal, users, user, profile>>

\* IssuedItemsManagement.tsx 40-75 (fetchIssuedItems), the overdue figures of the list
loadIssuedItems(s, drift) ==
    /\ s \in Admins /\ CanStart(s)
    /\ Rendered("issued", now, now + drift,
                [n \in 1..Len(issued_items) |->
                    issuedItemWithDetails(n, issued_items[n], now, now + drift)])

\* MyItems.tsx 45-82 (fetchMyIssuedItems), the overdue figures of the guest's rows
loadMyIssuedItems(u, drift) ==
    /\ u \in Guests /\ CanStart(u)
    /\ LET all == [n \in 1..Len(issued_items) |-> [id |-> n, item |-> issued_items[n]]]
           mine == SelectSeq(all, LAMBDA e : e.item.user_id = u)
       IN Rendered("myitems", now, now + drift,
                   [k \in 1..Len(mine) |->
                       myItemWithDetails(mine[k].id, mine[k].item, now, now + drift)])

\* AdminDashboard.tsx 56-144 (fetchDashboardStats), the overdue list
fetchDashboardStats(s) ==
    /\ s \in Admins /\ CanStart(s)
    /\ Rendered("dashboard", now, now,
                SelectSeq([n \in 1..Len(issued_items) |->
                              overdueItem(n, issued_items[n], now)], IsListed))

\* time passes
tick(d) ==
    /\ d > 0
    /\ now + d <= MaxDays * DayLen
    /\ now' = now + d
    /\ overdue' = [v \in OverdueViews |-> NoFigures]
    /\ toast' = NoToast
    /\ done' = NoDone
    /\ UNCHANGED <<store, view, proc, pre, history, serial, cart, modal, users, user, profile>>

\* ======================= admin: AssetRegister =======================
\* the asset page of session s after a handler's fetchAssets
AssetsLoaded(s, rows) == [view EXCEPT ![s] = [page |-> "assets", rows |-> fetchAssets(rows)]]

\* AssetRegister (part_006) 80-167: insert the asset (status defaults to active,
\* migration 005 line 10), then reload
handleAddAsset(s, location) ==
    /\ s \in Admins /\ CanStart(s)
    /\ view[s].page = "assets"
    /\ Len(assets) < MaxAssets
    /\ LET rows == Append(assets, [current_location |-> location, status |-> "active",
                                   discard_reason |-> NULL, discard_date |-> <<>>])
       IN /\ assets' = rows
          /\ view' = AssetsLoaded(s, rows)
    /\ Once(s, [Idle EXCEPT !.op = "addAsset", !.id = Len(assets) + 1], Success(s))
    /\ UNCHANGED <<stock_items, requests, issued_items, item_transfers, discarded_items,
                   purchase_history, history, serial, now, overdue, cart, modal, users, user, profile>>

\* 169-194 behind the Change Location action of an active row (437-447)
handleUpdateLocation(s, assetId, newLocation) ==
    /\ s \in Admins /\ CanStart(s)
    /\ view[s].page = "assets"
    /\ assetId \in 1..Len(view[s].rows)
    /\ view[s].rows[assetId].status = "active"
    /\ LET rows == [assets EXCEPT ![assetId].current_location = newLocation]
       IN /\ assets' = rows
          /\ view' = AssetsLoaded(s, rows)
    /\ Once(s, [Idle EXCEPT !.op = "updateLocation", !.id = assetId], Success(s))
    /\ UNCHANGED <<stock_items, requests, issued_items, item_transfers, discarded_items,
                   purchase_history, history, serial, now, overdue, cart, modal, users, user, profile>>

\* 203-205: the columns a discard writes
discardedAsset(asset, discardReason, t) ==
    [asset EXCEPT !.status = "discarded", !.discard_reason = discardReason,
                  !.discard_date = <<t>>]

\* 196-228 behind the Discard Asset action of an active row (448-456) and the
\* dialog's submit (722-727: a reason is typed)
handleDiscardAsset(s, assetId, discardReason) ==
    /\ s \in Admins /\ CanStart(s)
    /\ view[s].page = "assets"
    /\ assetId \in 1..Len(view[s].rows)
    /\ view[s].rows[assetId].status = "active"
    /\ discardReason # ""
    /\ LET rows == [assets EXCEPT ![assetId] = discardedAsset(@, discardReason, now)]
       IN /\ assets' = rows
          /\ view' = AssetsLoaded(s, rows)
    /\ Once(s, [Idle EXCEPT !.op = "discardAsset", !.id = assetId,
                            !.reason = discardReason], Success(s))
    /\ UNCHANGED <<stock_items, requests, issued_items, item_transfers, discarded_items,
                   purchase_history, history, serial, now, overdue, cart, modal, users, user, profile>>

\* 207-214, 224-227: the update of a discard fails
discardAssetError(s, assetId, discardReason) ==
    /\ s \in Admins /\ CanStart(s)
    /\ view[s].page = "assets"
    /\ assetId \in 1..Len(view[s].rows)
    /\ view[s].rows[assetId].status = "active"
    /\ discardReason # ""
    /\ Once(s, [Idle EXCEPT !.op = "discardAsset", !.id = assetId,
                            !.reason = discardReason], Failed(s))
    /\ UNCHANGED <<store, view, history, serial, now, overdue, cart, modal, users, user, profile>>

\* ======================= AuthContext: signIn, signOut =======================
\* AuthContext.tsx 413-471: the row whose name matches the typed username, if any
userData(un) == IF un \in DOMAIN users THEN users[un] ELSE NoUserData

\* 473-474
isAnil(un) == un = "anil"
anilPwOk(pw) == pw = "Ahnsuil7917794@" \/ pw = "7917794"

\* 480-482: the other built-in accounts
builtIn(un, pw) ==
    \/ un = "admin" /\ pw = "admin123"
    \/ un = "admin2" /\ pw = "admin123"
    \/ un = "guest" /\ pw = "guest123"

\* 486-490: h === demo_hash_<pw>, else h.startsWith('$2b$')
hashAccepts(h, pw) ==
    IF h = DemoHash(pw) THEN TRUE
    ELSE h.format = "$2b$"

\* 468-490
validPassword(un, pw) ==
    IF isAnil(un) /\ anilPwOk(pw) THEN TRUE
    ELSE IF builtIn(un, pw) THEN TRUE
    ELSE hashAccepts(userData(un).password_hash, pw)

\* 497-504
resolvedRole(un, pw) ==
    IF (isAnil(un) /\ anilPwOk(pw)) \/ userData(un).role = "super_admin" THEN "super_admin"
    ELSE IF un \in {"admin", "admin2"} \/ userData(un).role = "admin" THEN "admin"
    ELSE "guest"

\* what a sign-in attempt leaves in done and toast
Attempt(un, pw, kind) ==
    /\ done' = [NoDone EXCEPT !.op = "signIn", !.username = un, !.password = pw]
    /\ toast' = [NoToast EXCEPT !.kind = kind]

\* 401-537
signIn(un, pw) ==
    /\ IF un = "" \/ userData(un) = NoUserData \/ ~validPassword(un, pw)
       THEN /\ Attempt(un, pw, "Invalid")
            /\ UNCHANGED <<user, profile>>
       ELSE /\ Attempt(un, pw, "success")
            /\ profile' = [id |-> un, role |-> resolvedRole(un, pw)]
            /\ user' = [id |-> un]
    /\ UNCHANGED <<store, users, view, proc, pre, history, serial, now, overdue, cart, modal>>

\* 539-552
signOut ==
    /\ user # NoUser \/ profile # NoProfile
    /\ user' = NoUser
    /\ profile' = NoProfile
    /\ done' = [NoDone EXCEPT !.op = "signOut"]
    /\ toast' = [NoToast EXCEPT !.kind = "success"]
    /\ UNCHANGED <<store, users, view, proc, pre, history, serial, now, overdue, cart, modal>>

\* UserManagement.tsx 55-75: Add User stores demo_hash_<password>
handleAddUser(name, password, role) ==
    /\ profile.role \in {"admin", "super_admin"}
    /\ name \notin DOMAIN users
    /\ users' = [n \in DOMAIN users \cup {name} |->
                    IF n = name THEN [role |-> role, password_hash |-> DemoHash(password)]
                    ELSE users[n]]
    /\ done' = [NoDone EXCEPT !.op = "addUser", !.username = name, !.password = password]
    /\ toast' = [NoToast EXCEPT !.kind = "success"]
    /\ UNCHANGED <<store, user, profile, view, proc, pre, history, serial, now, overdue, cart,
                   modal>>

\* ======================= the system =======================
\* one admin session working the whole ledger, handlers one at a time
LedgerAdmins == {"a1"}
LedgerReasons == {"damaged", "expired"}

LedgerNext ==
    \/ \E s \in LedgerAdmins, page \in AdminPages : navigate(s, page)
    \/ \E u \in Requesters : navigate(u, "browser")
    \/ \E u \in Requesters, items \in Carts : submitRequest(u, items)
    \/ \E s \in LedgerAdmins, r \in 1..MaxRequests :
          handleUpdateRequestStatus(s, r, "approved", "", FALSE)
    \/ \E s \in LedgerAdmins, r \in 1..MaxRequests : handleIssueItems(s, r, ReturnDays)
    \/ \E s \in LedgerAdmins, id \in 1..MaxIssuedRows : handleReturnItem(s, id)
    \/ \E s \in LedgerAdmins, i \in Items, n \in 1..MaxAddQty : handleRestockItem(s, i, n)
    \/ \E s \in LedgerAdmins, i \in Items, q \in 1..MaxReqQty, reason \in LedgerReasons :
          discard(s, i, q, reason)
    \/ \E s \in LedgerAdmins : checkStock(s)
    \/ \E s \in LedgerAdmins : fetchCurrent(s)
    \/ \E s \in LedgerAdmins : updateStock(s)
    \/ \E s \in LedgerAdmins : updateRequest(s)
    \/ \E s \in LedgerAdmins : markReturned(s)
    \/ \E s \in LedgerAdmins : fetchStock(s)
    \/ \E s \in LedgerAdmins : restoreStock(s)
    \/ \E s \in LedgerAdmins : restockUpdate(s)
    \/ \E s \in LedgerAdmins : discardDeduct(s)
    \/ \E s \in LedgerAdmins : discardAppend(s)

LedgerSpec == SerialInit /\ [][LedgerNext]_vars

\* one admin session restocking, approving, issuing and taking back, handlers one
\* at a time and nothing else changing a quantity
ConserveAdmins == {"a1"}

ConserveNext ==
    \/ \E s \in ConserveAdmins, page \in AdminPages : navigate(s, page)
    \/ \E u \in Requesters, items \in Carts : submitRequest(u, items)
    \/ \E s \in ConserveAdmins, r \in 1..MaxRequests :
          handleUpdateRequestStatus(s, r, "approved", "", FALSE)
    \/ \E s \in ConserveAdmins, r \in 1..MaxRequests : handleIssueItems(s, r, ReturnDays)
    \/ \E s \in ConserveAdmins, id \in 1..MaxIssuedRows : handleReturnItem(s, id)
    \/ \E s \in ConserveAdmins, i \in Items, n \in 1..MaxAddQty : handleRestockItem(s, i, n)
    \/ \E s \in ConserveAdmins : checkStock(s)
    \/ \E s \in ConserveAdmins : fetchCurrent(s)
    \/ \E s \in ConserveAdmins : updateStock(s)
    \/ \E s \in ConserveAdmins : updateRequest(s)
    \/ \E s \in ConserveAdmins : markReturned(s)
    \/ \E s \in ConserveAdmins : fetchStock(s)
    \/ \E s \in ConserveAdmins : restoreStock(s)
    \/ \E s \in ConserveAdmins : restockUpdate(s)

ConserveSpec == SerialInit /\ [][ConserveNext]_vars

\* one admin session editing and approving in the request details dialog, handlers
\* one at a time
EditAdmins == {"a1"}

EditNext ==
    \/ \E s \in EditAdmins : navigate(s, "requests")
    \/ \E u \in Requesters, items \in Carts : submitRequest(u, items)
    \/ \E s \in EditAdmins, r \in 1..MaxRequests : setSelectedRequest(s, r)
    \/ \E s \in EditAdmins, index \in 1..Len(ItemOrder) : setEditingItemIndex(s, index)
    \/ \E s \in EditAdmins, value \in 1..MaxEditQty : setQuantity(s, value)
    \/ \E s \in EditAdmins : saveItems(s)
    \/ \E s \in EditAdmins : cancelEdit(s)
    \/ \E s \in EditAdmins, adminNotes \in Notes : onUpdateStatus(s, adminNotes)
    \/ \E s \in EditAdmins : onClose(s)
    \/ \E s \in EditAdmins : checkStock(s)
    \/ \E s \in EditAdmins : fetchCurrent(s)
    \/ \E s \in EditAdmins : updateStock(s)
    \/ \E s \in EditAdmins : updateRequest(s)

EditSpec == SerialInit /\ [][EditNext]_vars

\* one browser signing in and out against a users table whose admin and guest rows
\* hold the seeded demo hashes or the bcrypt hashes of a deployed database
HashFormats == {"demo_hash_", "$2b$"}

AuthInit ==
    /\ InitStore /\ InitHistory /\ InitSessions /\ InitClock /\ serial = TRUE
    /\ user = NoUser
    /\ profile = NoProfile
    /\ \E fa \in HashFormats, fg \in HashFormats :
          users = [SeededUsers EXCEPT !["admin"].password_hash.format = fa,
                                      !["guest"].password_hash.format = fg]

AuthNext ==
    \/ \E un \in Usernames, pw \in Passwords : signIn(un, pw)
    \/ signOut
    \/ \E name \in NewUsers, password \in NewPasswords, role \in {"admin", "guest"} :
          handleAddUser(name, password, role)

AuthSpec == AuthInit /\ [][AuthNext]_vars

\* two admin sessions working the requests and the issued items, handlers one at a time
DeskPages == {"requests", "issued"}

DeskNext ==
    \/ \E s \in Admins, page \in DeskPages : navigate(s, page)
    \/ \E u \in Requesters, items \in Carts : submitRequest(u, items)
    \/ \E s \in Admins, r \in 1..MaxRequests, c \in RowClicks \cup ModalClicks :
          handleUpdateRequestStatus(s, r, c.status, c.adminNotes, c.hasItems)
    \/ \E s \in Admins, r \in 1..MaxRequests, items \in Carts :
          handleUpdateRequestItems(s, r, items)
    \/ \E s \in Admins, r \in 1..MaxRequests : handleIssueItems(s, r, ReturnDays)
    \/ \E s \in Admins, id \in 1..MaxIssuedRows : handleReturnItem(s, id)
    \/ \E s \in Admins : checkStock(s)
    \/ \E s \in Admins : fetchCurrent(s)
    \/ \E s \in Admins : updateStock(s)
    \/ \E s \in Admins : updateRequest(s)
    \/ \E s \in Admins : markReturned(s)
    \/ \E s \in Admins : fetchStock(s)
    \/ \E s \in Admins : restoreStock(s)

DeskSpec == SerialInit /\ [][DeskNext]_vars

\* one admin session and the guest sessions: issued items handed on between guests
TransferAdmins == {"a1"}

TransferNext ==
    \/ \E s \in TransferAdmins, page \in DeskPages : navigate(s, page)
    \/ \E u \in Guests, page \in GuestPages : navigate(u, page)
    \/ \E u \in Requesters, items \in Carts : submitRequest(u, items)
    \/ \E s \in TransferAdmins, r \in 1..MaxRequests :
          handleUpdateRequestStatus(s, r, "approved", "", FALSE)
    \/ \E s \in TransferAdmins, r \in 1..MaxRequests : handleIssueItems(s, r, ReturnDays)
    \/ \E s \in TransferAdmins, id \in 1..MaxIssuedRows : handleReturnItem(s, id)
    \/ \E u \in Guests, id \in 1..MaxIssuedRows, to \in Guests : handleTransferItem(u, id, to)
    \/ \E s \in TransferAdmins : checkStock(s)
    \/ \E s \in TransferAdmins : fetchCurrent(s)
    \/ \E s \in TransferAdmins : updateStock(s)
    \/ \E s \in TransferAdmins : updateRequest(s)
    \/ \E s \in TransferAdmins : markReturned(s)
    \/ \E s \in TransferAdmins : fetchStock(s)
    \/ \E s \in TransferAdmins : restoreStock(s)
    \/ \E u \in Guests : transferUpdate(u)
    \/ \E u \in Guests : transferInsert(u)

TransferSpec == SerialInit /\ [][TransferNext]_vars

\* the same sessions, the insert of the transfer row failing or not
HandoverNext ==
    \/ TransferNext
    \/ \E u \in Guests : transferError(u)

HandoverSpec == SerialInit /\ [][HandoverNext]_vars

\* a guest handing an issued row on while the admin takes it back, the two handlers
\* interleaved at every store call
RaceSpec == Init /\ [][TransferNext]_vars

\* the admin sessions with their handlers interleaved at every store call, all
\* working on one stock item
Contended == {"i1"}
ContendedCarts == {c \in Lines1 : c[1].item_id \in Contended}

Next ==
    \/ \E s \in Admins, page \in AdminPages : navigate(s, page)
    \/ \E u \in Requesters, items \in ContendedCarts : submitRequest(u, items)
    \/ \E s \in Admins, r \in 1..MaxRequests :
          handleUpdateRequestStatus(s, r, "approved", "", FALSE)
    \/ \E s \in Admins, r \in 1..MaxRequests : handleIssueItems(s, r, ReturnDays)
    \/ \E s \in Admins, id \in 1..MaxIssuedRows : handleReturnItem(s, id)
    \/ \E s \in Admins, i \in Contended, n \in 1..MaxAddQty : handleRestockItem(s, i, n)
    \/ \E s \in Admins : checkStock(s)
    \/ \E s \in Admins : fetchCurrent(s)
    \/ \E s \in Admins : updateStock(s)
    \/ \E s \in Admins : updateRequest(s)
    \/ \E s \in Admins : markReturned(s)
    \/ \E s \in Admins : fetchStock(s)
    \/ \E s \in Admins : restoreStock(s)
    \/ \E s \in Admins : restockUpdate(s)

Spec == Init /\ [][Next]_vars

\* the lists with overdue figures, rendered while time passes: the store holds a
\* request of u1 for one unit of each item, approved and issued at hour 0
OverdueAdmins == {"a1"}
OverdueGuests == {"u1"}
OverdueCart == <<[item_id |-> "i1", quantity |-> 1], [item_id |-> "i2", quantity |-> 1]>>
OverdueRequest == [user_id |-> "u1", items |-> OverdueCart, status |-> "approved",
                   admin_notes |-> NULL]

OverdueInit ==
    /\ stock_items = [i \in Items |-> InitialStock[i] - 1]
    /\ requests = <<OverdueRequest>>
    /\ issued_items = issuedRows(OverdueRequest, 1, returnDate(0, ReturnDays))
    /\ item_transfers = <<>>
    /\ discarded_items = <<>>
    /\ purchase_history = <<>>
    /\ assets = <<>>
    /\ ledger = [i \in Items |-> SetToBag({Entry("deduct", 1, 1)})]
    /\ initial = InitialStock
    /\ submitted = <<[stock_items |-> InitialStock, ledger |-> [i \in Items |-> EmptyBag]]>>
    /\ InitAuth /\ InitSessions /\ InitClock /\ serial = TRUE

OverdueNext ==
    \/ \E d \in {1, DayLen} : tick(d)
    \/ \E s \in OverdueAdmins : navigate(s, "issued")
    \/ \E s \in OverdueAdmins, id \in 1..MaxIssuedRows : handleReturnItem(s, id)
    \/ \E s \in OverdueAdmins : markReturned(s)
    \/ \E s \in OverdueAdmins : fetchStock(s)
    \/ \E s \in OverdueAdmins : restoreStock(s)
    \/ \E s \in OverdueAdmins, drift \in 0..MaxDrift : loadIssuedItems(s, drift)
    \/ \E u \in OverdueGuests, drift \in 0..MaxDrift : loadMyIssuedItems(u, drift)
    \/ \E s \in OverdueAdmins : fetchDashboardStats(s)

OverdueSpec == OverdueInit /\ [][OverdueNext]_vars

\* both guests ask for the contended item; one admin session approves, handlers one
\* at a time
QueueAdmins == {"a1"}
QueueIds == 1..(MaxRequests * Cardinality(Guests))

QueueNext ==
    \/ \E s \in QueueAdmins : navigate(s, "requests")
    \/ \E u \in Guests : navigate(u, "browser")
    \/ \E u \in Guests, items \in ContendedCarts : submitRequest(u, items)
    \/ \E s \in QueueAdmins, r \in QueueIds :
          handleUpdateRequestStatus(s, r, "approved", "", FALSE)
    \/ \E s \in QueueAdmins : checkStock(s)
    \/ \E s \in QueueAdmins : fetchCurrent(s)
    \/ \E s \in QueueAdmins : updateStock(s)
    \/ \E s \in QueueAdmins : updateRequest(s)

QueueSpec == SerialInit /\ [][QueueNext]_vars

\* one admin session whose store calls may fail, handlers one at a time
FaultAdmins == {"a1"}

FaultNext ==
    \/ \E s \in FaultAdmins, page \in AdminPages : navigate(s, page)
    \/ \E u \in Requesters, items \in Carts : submitRequest(u, items)
    \/ \E s \in FaultAdmins, r \in 1..MaxRequests :
          handleUpdateRequestStatus(s, r, "approved", "", FALSE)
    \/ \E s \in FaultAdmins, r \in 1..MaxRequests : requestError(s, r, "approved", "")
    \/ \E s \in FaultAdmins, r \in 1..MaxRequests, items \in Carts :
          handleUpdateRequestItems(s, r, items)
    \/ \E s \in FaultAdmins, r \in 1..MaxRequests, items \in Carts :
          updateItemsError(s, r, items)
    \/ \E s \in FaultAdmins : checkStock(s)
    \/ \E s \in FaultAdmins : stockError(s)
    \/ \E s \in FaultAdmins : fetchCurrent(s)
    \/ \E s \in FaultAdmins : fetchError(s)
    \/ \E s \in FaultAdmins : updateStock(s)
    \/ \E s \in FaultAdmins : stockUpdateError(s)
    \/ \E s \in FaultAdmins : updateRequest(s)
    \/ \E s \in FaultAdmins : updateRequestError(s)
    \/ \E s \in FaultAdmins, r \in 1..MaxRequests : handleIssueItems(s, r, ReturnDays)
    \/ \E s \in FaultAdmins, r \in 1..MaxRequests : issueError(s, r, ReturnDays)
    \/ \E s \in FaultAdmins, id \in 1..MaxIssuedRows : handleReturnItem(s, id)
    \/ \E s \in FaultAdmins, id \in 1..MaxIssuedRows : returnFetchError(s, id)
    \/ \E s \in FaultAdmins : markReturned(s)
    \/ \E s \in FaultAdmins : returnError(s)
    \/ \E s \in FaultAdmins : fetchStock(s)
    \/ \E s \in FaultAdmins : fetchStockError(s)
    \/ \E s \in FaultAdmins : restoreStock(s)
    \/ \E s \in FaultAdmins : restoreStockError(s)
    \/ \E s \in FaultAdmins, i \in Items, n \in 1..MaxAddQty : handleRestockItem(s, i, n)
    \/ \E s \in FaultAdmins, i \in Items, n \in 1..MaxAddQty : restockFetchError(s, i, n)
    \/ \E s \in FaultAdmins : restockUpdate(s)
    \/ \E s \in FaultAdmins : restockUpdateError(s)
    \/ \E s \in FaultAdmins : purchaseError(s)

FaultSpec == SerialInit /\ [][FaultNext]_vars

\* one admin session on the stock page: restocks and edits of an item's details
StockAdmins == {"a1"}

StockNext ==
    \/ \E s \in StockAdmins : navigate(s, "stock")
    \/ \E s \in StockAdmins, i \in Items, n \in 1..MaxAddQty : handleRestockItem(s, i, n)
    \/ \E s \in StockAdmins : restockUpdate(s)
    \/ \E s \in StockAdmins, i \in Items, q \in 0..MaxEditQty : handleUpdateItem(s, i, q)
    \/ \E s \in StockAdmins, i \in Items, q \in 0..MaxEditQty : updateItemError(s, i, q)

StockSpec == SerialInit /\ [][StockNext]_vars

\* two admin sessions on the asset register, handlers one at a time
AssetNext ==
    \/ \E s \in Admins : navigate(s, "assets")
    \/ \E s \in Admins, l \in Locations : handleAddAsset(s, l)
    \/ \E s \in Admins, a \in 1..MaxAssets, l \in Locations : handleUpdateLocation(s, a, l)
    \/ \E s \in Admins, a \in 1..MaxAssets, d \in DiscardReasons :
          handleDiscardAsset(s, a, d)
    \/ \E s \in Admins, a \in 1..MaxAssets, d \in DiscardReasons :
          discardAssetError(s, a, d)

AssetSpec == SerialInit /\ [][AssetNext]_vars

\* one admin session approving and issuing on days of its choice, with the return
\* period typed in the Issue Items dialog
IssueAdmins == {"a1"}
IssueDays == {1, ReturnDays}
\* what an admin may type in the dialog's Return Due field
TypedDays == {-1, 0, MaxReturnDays, MaxReturnDays + 1}

IssueNext ==
    \/ tick(DayLen)
    \/ \E s \in IssueAdmins : navigate(s, "requests")
    \/ \E u \in Requesters, items \in Carts : submitRequest(u, items)
    \/ \E s \in IssueAdmins, r \in 1..MaxRequests :
          handleUpdateRequestStatus(s, r, "approved", "", FALSE)
    \/ \E s \in IssueAdmins : checkStock(s)
    \/ \E s \in IssueAdmins : fetchCurrent(s)
    \/ \E s \in IssueAdmins : updateStock(s)
    \/ \E s \in IssueAdmins : updateRequest(s)
    \/ \E s \in IssueAdmins, r \in 1..MaxRequests, days \in IssueDays :
          handleIssueItems(s, r, days)
    \/ \E s \in IssueAdmins, r \in 1..MaxRequests, typed \in TypedDays :
          issueSubmit(s, r, typed)
    \/ \E s \in IssueAdmins, r \in 1..MaxRequests, typed \in TypedDays :
          issueBlocked(s, r, typed)

IssueSpec == SerialInit /\ [][IssueNext]_vars

\* the admin sessions approving, rejecting and issuing, the issued-rows lookups of the list
\* failing or not
LookupAdmins == Admins

LookupNext ==
    \/ \E s \in LookupAdmins, failed \in SUBSET (1..MaxRequests) : loadRequests(s, failed)
    \/ \E u \in Requesters, items \in Carts : submitRequest(u, items)
    \/ \E s \in LookupAdmins, r \in 1..MaxRequests, c \in RowClicks :
          handleUpdateRequestStatus(s, r, c.status, c.adminNotes, c.hasItems)
    \/ \E s \in LookupAdmins : checkStock(s)
    \/ \E s \in LookupAdmins : fetchCurrent(s)
    \/ \E s \in LookupAdmins : updateStock(s)
    \/ \E s \in LookupAdmins : updateRequest(s)
    \/ \E s \in LookupAdmins, r \in 1..MaxRequests : handleIssueItems(s, r, ReturnDays)

LookupSpec == SerialInit /\ [][LookupNext]_vars

\* a guest filling and submitting a cart while an admin approves, handlers one at a
\* time
CartAdmins == {"a1"}

CartNext ==
    \/ \E s \in CartAdmins : navigate(s, "requests")
    \/ \E u \in Requesters : navigate(u, "browser")
    \/ \E u \in Requesters, n \in 1..Len(ItemOrder) : addToCart(u, n)
    \/ \E u \in Requesters, k \in 1..Len(ItemOrder), step \in {-1, 1} :
          updateCartQuantity(u, k, step)
    \/ \E u \in Requesters, k \in 1..Len(ItemOrder) : removeLine(u, k)
    \/ \E u \in Requesters : submitCart(u)
    \/ \E u \in Requesters : submitEmpty(u)
    \/ \E u \in Requesters : submitError(u)
    \/ \E s \in CartAdmins, r \in 1..MaxRequests :
          handleUpdateRequestStatus(s, r, "approved", "", FALSE)
    \/ \E s \in CartAdmins : checkStock(s)
    \/ \E s \in CartAdmins : fetchCurrent(s)
    \/ \E s \in CartAdmins : updateStock(s)
    \/ \E s \in CartAdmins : updateRequest(s)

CartSpec == SerialInit /\ [][CartNext]_vars

\* ======================= properties =======================
AllIdle == \A s \in Sessions : proc[s].op = "idle"

\* C1: with handlers running one after another, the on-hand quantity of every item
\* equals its initial quantity + restocks - approval deductions + return credits
\* - discards, and it is never negative, in every state.
C1_LedgerBalance ==
    \A i \in Items :
        /\ stock_items[i] = initial[i] + SumOf(ledger[i], "restock")
                                       - SumOf(ledger[i], "deduct")
                                       + SumOf(ledger[i], "credit")
                                       - SumOf(ledger[i], "discard")
        /\ stock_items[i] >= 0

C1_Witness ==
    /\ AllIdle
    /\ \E i \in Items :
          \A op \in {"restock", "deduct", "credit", "discard"} : SumOf(ledger[i], op) > 0

\* the lines of a request that ask for more than the store snapshot st holds
Short(lines, st) ==
    {k \in 1..Len(lines) : lines[k].quantity > st.stock_items[lines[k].item_id]}

Min(S) == CHOOSE k \in S : \A j \in S : k <= j

\* C2: an approval of a request with a line asking for more than the on-hand quantity
\* ends with InsufficientStock, no item's quantity changed (the lines before the
\* offending one included) and the request still pending.
C2_ApproveAllOrNothing ==
    (done.op = "approved" /\ Short(done.lines, done.pre) # {}) =>
        /\ toast.kind = "InsufficientStock"
        /\ stock_items = done.pre.stock_items
        /\ requests[done.id].status = "pending"

C2_Witness ==
    /\ done.op = "approved"
    /\ Len(done.lines) = 2
    /\ Short(done.lines, done.pre) = {2}
    /\ toast.kind = "InsufficientStock"

\* C8: the InsufficientStock outcome of an approval names the first line of the
\* request that asks for more than is on hand, with available = the item's current
\* quantity and requested = the quantity of that line.
C8_InsufficientStockDetails ==
    (done.op = "approved" /\ toast.kind = "InsufficientStock") =>
        /\ Short(done.lines, done.pre) # {}
        /\ LET line == done.lines[Min(Short(done.lines, done.pre))]
           IN /\ toast.item = line.item_id
              /\ toast.available = stock_items[line.item_id]
              /\ toast.requested = line.quantity

C8_Witness ==
    /\ done.op = "approved"
    /\ toast.kind = "InsufficientStock"
    /\ Short(done.lines, done.pre) = {1, 2}
    /\ stock_items[done.lines[1].item_id] # stock_items[done.lines[2].item_id]
    /\ toast.available # toast.requested

\* what was committed on item i since request r was submitted
Since(r, i) == ledger[i] (-) submitted[r].ledger[i]

\* the issued rows of line k of request r
RowsOf(r, k) ==
    {n \in 1..Len(issued_items) :
        /\ issued_items[n].request_id = r
        /\ issued_items[n].item_id = requests[r].items[k].item_id}

\* C5: for a request line of q units of an item holding at least q at submit, with
\* nothing else touching the item: after approve the quantity is the submit-time
\* quantity - q, issuing leaves it there, and after markReturned of the issued row
\* it is the submit-time quantity again.
C5_RoundTrip ==
    \A r \in 1..Len(requests) : \A k \in 1..Len(requests[r].items) :
        LET i == requests[r].items[k].item_id
            q == requests[r].items[k].quantity
            was == submitted[r].stock_items[i]
            approve == SetToBag({Entry("deduct", r, q)})
        IN q <= was =>
            /\ Since(r, i) = EmptyBag => stock_items[i] = was
            /\ Since(r, i) = approve => stock_items[i] = was - q
            /\ \A n \in RowsOf(r, k) :
                 /\ (~issued_items[n].returned /\ Since(r, i) = approve)
                        => stock_items[i] = was - q
                 /\ Since(r, i) = approve (+) SetToBag({Entry("credit", n, q)})
                        => stock_items[i] = was

C5_Witness ==
    \E r \in 1..Len(requests) : \E k \in 1..Len(requests[r].items) :
        \E n \in RowsOf(r, k) :
            /\ AllIdle
            /\ issued_items[n].returned
            /\ Since(r, requests[r].items[k].item_id)
                 = SetToBag({Entry("deduct", r, requests[r].items[k].quantity)})
                   (+) SetToBag({Entry("credit", n, requests[r].items[k].quantity)})
            /\ stock_items[requests[r].items[k].item_id] > 0

\* C9: a discard of q units with 0 < q <= on-hand lowers the item's quantity by
\* exactly q, leaves the other items alone and appends exactly one discarded_items
\* row carrying the item, q and the reason; with q > on-hand it ends with
\* InsufficientStock and quantity and discarded_items are unchanged.
C9_Discard ==
    done.op = "discard" =>
        LET was == done.pre.stock_items[done.item]
        IN /\ (0 < done.qty /\ done.qty <= was) =>
                /\ toast.kind = "success"
                /\ stock_items = [done.pre.stock_items EXCEPT ![done.item] = was - done.qty]
                /\ discarded_items =
                     Append(done.pre.discarded_items,
                            [item_id |-> done.item, quantity_discarded |-> done.qty,
                             reason |-> done.reason, discarded_by |-> done.session])
           /\ done.qty > was =>
                /\ toast.kind = "InsufficientStock"
                /\ stock_items = done.pre.stock_items
                /\ discarded_items = done.pre.discarded_items

C9_Witness ==
    /\ done.op = "discard"
    /\ done.reason = "expired"
    /\ done.qty = 2
    /\ done.pre.stock_items[done.item] = 3
    /\ stock_items[done.item] = 1
    /\ Len(discarded_items) = 1

\* how many times the stock was credited for issued row n
Credits(n) ==
    LET B == ledger[issued_items[n].item_id]
        S == {e \in BagToSet(B) : e.op = "credit" /\ e.ref = n}
        RECURSIVE Count(_)
        Count(T) == IF T = {} THEN 0
                    ELSE LET e == CHOOSE x \in T : TRUE
                         IN CopiesIn(e, B) + Count(T \ {e})
    IN Count(S)

\* C3: a markReturned of an issued row that is already returned ends with
\* InvalidState, and the stock is credited for a row at most once.
C3_ReturnedOnce ==
    /\ \A n \in 1..Len(issued_items) : Credits(n) <= 1
    /\ (done.op = "return" /\ done.pre.issued_items[done.id].returned)
          => toast.kind = "InvalidState"

\* C4: a transfer of an issued row that is already returned ends with InvalidState,
\* the row keeps its holder and no item_transfers row is appended.
C4_TransferReturned ==
    (done.op = "transfer" /\ done.pre.issued_items[done.id].returned) =>
        /\ toast.kind = "InvalidState"
        /\ issued_items = done.pre.issued_items
        /\ item_transfers = done.pre.item_transfers

C4_Witness ==
    /\ done.op = "transfer"
    /\ done.pre.issued_items[done.id].returned
    /\ toast.kind = "InvalidState"
    /\ issued_items[done.id].user_id = done.session
    /\ item_transfers = <<>>

\* C6: with the handlers of different sessions interleaved, every committed ledger
\* operation takes effect (once all handlers have ended the quantity is the initial
\* quantity + restocks - deductions + credits, whatever the order), and the
\* quantity is never below zero.
C6_Linearizable ==
    \A i \in Items :
        /\ AllIdle => stock_items[i] = initial[i] + SumOf(ledger[i], "restock")
                                                  - SumOf(ledger[i], "deduct")
                                                  + SumOf(ledger[i], "credit")
        /\ stock_items[i] >= 0

\* C7: a request that is approved or rejected never changes status again.
C7_StatusFinal ==
    [][\A r \in 1..Len(requests) :
          requests[r].status # "pending" => requests'[r].status = requests[r].status]_vars

\* the overdue status of a row at hour t: not returned and past its due date
IsOverdue(row, t) == ~row.returned /\ t > row.return_due

\* the whole days elapsed since the due date when overdue, else 0
DaysOverdue(row, t) == IF IsOverdue(row, t) THEN (t - row.return_due) \div DayLen ELSE 0

\* C10: every rendering (admin issued items, guest my items, admin dashboard) shows,
\* for each of its rows, is_overdue = not returned and now > return_due, and
\* days_overdue = the whole days elapsed since return_due when overdue, else 0, for
\* a now that the rendering read from the clock; and two renderings that read the
\* same now show the same figures for the same row.
C10_OverduePure ==
    /\ \A v \in OverdueViews :
          \E t \in {overdue[v].at[1], overdue[v].at[2]} :
              \A k \in 1..Len(overdue[v].rows) :
                  LET row == overdue[v].rows[k]
                  IN /\ row.is_overdue = IsOverdue(row, t)
                     /\ row.days_overdue = DaysOverdue(row, t)
    /\ \A v \in OverdueViews, w \in OverdueViews :
          (overdue[v].at = <<now, now>> /\ overdue[w].at = <<now, now>>) =>
              \A k \in 1..Len(overdue[v].rows), j \in 1..Len(overdue[w].rows) :
                  LET a == overdue[v].rows[k]
                      b == overdue[w].rows[j]
                  IN (a.id = b.id /\ a.returned = b.returned) =>
                        /\ a.is_overdue = b.is_overdue
                        /\ a.days_overdue = b.days_overdue

\* the quantity of item i asked for by the lines of a request
RECURSIVE Asked(_, _)
Asked(lines, i) ==
    IF lines = <<>> THEN 0
    ELSE (IF Head(lines).item_id = i THEN Head(lines).quantity ELSE 0)
         + Asked(Tail(lines), i)

\* the quantity of item i asked for by the first n requests that are approved
RECURSIVE Granted(_, _)
Granted(n, i) ==
    IF n = 0 THEN 0
    ELSE (IF requests[n].status = "approved" THEN Asked(requests[n].items, i) ELSE 0)
         + Granted(n - 1, i)

\* C11: submit checks no stock and reserves nothing (the request is stored pending,
\* the quantities stay); an approval run after another is checked against the
\* quantities the earlier one left: it deducts its lines if they all fit and else
\* ends with InsufficientStock, deducting nothing and leaving the request pending;
\* so the approved requests never ask for more than the stock held.
C11_FirstApproverWins ==
    /\ done.op = "submit" =>
          /\ stock_items = done.pre.stock_items
          /\ requests = Append(done.pre.requests,
                               [user_id |-> done.session, items |-> done.lines,
                                status |-> "pending", admin_notes |-> NULL])
    /\ done.op = "approved" =>
          IF Short(done.lines, done.pre) = {}
          THEN /\ toast.kind = "success"
               /\ requests[done.id].status = "approved"
               /\ \A i \in Items :
                     stock_items[i] = done.pre.stock_items[i] - Asked(done.lines, i)
          ELSE /\ toast.kind = "InsufficientStock"
               /\ requests[done.id].status = "pending"
               /\ stock_items = done.pre.stock_items
    /\ AllIdle => \A i \in Items :
          stock_items[i] = initial[i] - Granted(Len(requests), i)

C11_Witness ==
    /\ Len(requests) = 2
    /\ requests[1].items[1].item_id = requests[2].items[1].item_id
    /\ requests[1].items[1].quantity + requests[2].items[1].quantity
          > initial[requests[1].items[1].item_id]
    /\ requests[2].status = "approved"
    /\ done.op = "approved" /\ done.id = 1
    /\ toast.kind = "InsufficientStock"
    /\ requests[1].status = "pending"
    /\ stock_items[requests[1].items[1].item_id]
          = initial[requests[1].items[1].item_id] - requests[2].items[1].quantity

\* C12: a restock by n > 0 that ends with the success toast has raised the item's
\* quantity by exactly n and nothing else in the store, whether the purchase row was
\* stored or its insert failed (then purchase_history is as before); a restock whose
\* quantity update or quantity read failed ends with the failure toast and has
\* changed nothing.
C12_Restock ==
    done.op = "restock" =>
        /\ done.qty > 0
        /\ toast.kind \in {"success", "failed"}
        /\ toast.kind = "success" =>
              /\ stock_items = [done.pre.stock_items EXCEPT ![done.item] = @ + done.qty]
              /\ purchase_history \in
                    {done.pre.purchase_history,
                     Append(done.pre.purchase_history, purchaseRow(done.item, done.qty))}
        /\ toast.kind = "failed" =>
              /\ stock_items = done.pre.stock_items
              /\ purchase_history = done.pre.purchase_history
        /\ requests = done.pre.requests
        /\ issued_items = done.pre.issued_items

\* a restock whose purchase row was lost: the quantity is raised, success is reported
C12_Witness ==
    /\ done.op = "restock" /\ toast.kind = "success"
    /\ purchase_history = <<>>
    /\ stock_items[done.item] = done.pre.stock_items[done.item] + done.qty

\* a restock whose quantity update failed
C12_WitnessFailed ==
    /\ done.op = "restock" /\ toast.kind = "failed"
    /\ stock_items = done.pre.stock_items

\* C13: a step changes the stored quantity of an item only by committing a ledger
\* operation (restock, approval deduction, return credit, discard deduction) on it.
C13_OnlyLedgerWrites ==
    [][\A i \in Items : stock_items'[i] # stock_items[i] => ledger'[i] # ledger[i]]_vars

\* C14: a discarded asset stays discarded, and its discard_reason and discard_date
\* stay as the first discard wrote them.
C14_DiscardedTerminal ==
    [][\A a \in 1..Len(assets) :
          assets[a].status = "discarded" =>
              /\ assets'[a].status = "discarded"
              /\ assets'[a].discard_reason = assets[a].discard_reason
              /\ assets'[a].discard_date = assets[a].discard_date]_vars

\* C15: an approval ends either with every line deducted and the request approved,
\* or with the store as it was when the approval started.
C15_ApproveAtomic ==
    done.op = "approved" =>
        \/ /\ requests[done.id].status = "approved"
           /\ \A i \in Items :
                 stock_items[i] = done.pre.stock_items[i] - Asked(done.lines, i)
        \/ /\ stock_items = done.pre.stock_items
           /\ requests = done.pre.requests

\* C16: a markReturned that ends with success has set returned and credited
\* quantity_issued to the stock item; one that ends with failure has left the issued
\* row and the stock as they were: no row is returned with its credit missing.
C16_ReturnCredited ==
    done.op = "return" =>
        IF toast.kind = "success"
        THEN /\ issued_items[done.id].returned
             /\ stock_items = [done.pre.stock_items EXCEPT ![done.item] = @ + done.qty]
        ELSE /\ issued_items = done.pre.issued_items
             /\ stock_items = done.pre.stock_items

\* C17: the stored lines of a request whose stored status is approved or rejected
\* never change.
C17_LinesFinal ==
    [][\A r \in 1..Len(requests) :
          requests[r].status # "pending" => requests'[r].items = requests[r].items]_vars

\* C18: an issue of an approved request appends exactly one issued row per line of
\* the stored request, in order, with the line's item, the requester as holder, the
\* request's id, quantity_issued = the line's quantity, returned = false, no
\* return_date, and return_due the same time of day returnDays calendar days after
\* now; it changes no stock quantity and no request.
C18_Issue ==
    (done.op = "issue" /\ toast.kind = "success"
       /\ done.pre.requests[done.id].status = "approved") =>
        LET request == done.pre.requests[done.id]
            before == Len(done.pre.issued_items)
        IN /\ Len(issued_items) = before + Len(request.items)
           /\ SubSeq(issued_items, 1, before) = done.pre.issued_items
           /\ \A n \in 1..Len(request.items) :
                 LET row == issued_items[before + n]
                 IN /\ row.item_id = request.items[n].item_id
                    /\ row.user_id = request.user_id
                    /\ row.request_id = done.id
                    /\ row.quantity_issued = request.items[n].quantity
                    /\ row.returned = FALSE
                    /\ row.return_date = NULL
                    /\ toLocal(row.return_due) = toLocal(now) + done.qty * DayLen
           /\ stock_items = done.pre.stock_items
           /\ requests = done.pre.requests

\* a two-line request issued on a day from which the return period spans the
\* change of the clocks
C18_Witness ==
    /\ done.op = "issue" /\ toast.kind = "success"
    /\ Len(done.lines) = 2
    /\ Len(issued_items) = 2
    /\ now < DstStart /\ issued_items[1].return_due >= DstStart

\* C19: a reject that succeeds has set the request's status to rejected and its
\* admin_notes to the notes typed (none when nothing was typed), has left the
\* request's lines and requester, every other request, every stock quantity and the
\* issued rows as they were.
C19_Reject ==
    (done.op = "rejected" /\ toast.kind = "success") =>
        /\ requests = [done.pre.requests EXCEPT
                          ![done.id].status = "rejected",
                          ![done.id].admin_notes = IF done.notes = "" THEN NULL
                                                   ELSE done.notes]
        /\ stock_items = done.pre.stock_items
        /\ issued_items = done.pre.issued_items

C19_Witness ==
    /\ done.op = "rejected" /\ toast.kind = "success"
    /\ done.pre.requests[done.id].status = "pending"
    /\ done.notes = "checked"
    /\ requests[done.id].status = "rejected"
    /\ requests[done.id].admin_notes = "checked"

\* the credits committed to the stock for issued row n
CreditsOf(n) ==
    {e \in BagToSet(ledger[issued_items[n].item_id]) : e.op = "credit" /\ e.ref = n}

C21_Submit ==
    /\ \A r \in 1..Len(requests) :
          /\ Len(requests[r].items) > 0
          /\ \A k \in 1..Len(requests[r].items) : requests[r].items[k].quantity > 0
    /\ done.op = "submit" =>
          /\ stock_items = done.pre.stock_items
          /\ IF toast.kind = "success"
             THEN /\ Len(done.lines) > 0
                  /\ requests = Append(done.pre.requests,
                                       [user_id |-> done.session, items |-> done.lines,
                                        status |-> "pending", admin_notes |-> NULL])
             ELSE requests = done.pre.requests

\* a request submitted from a cart that was filled, stepped down and up, and had a
\* line removed by stepping it to 0
C21_Witness ==
    /\ done.op = "submit" /\ toast.kind = "success"
    /\ Len(requests) = 1
    /\ Len(requests[1].items) = 1
    /\ requests[1].items[1].item_id = "i1"
    /\ requests[1].items[1].quantity = InitQty

C21_WitnessEmpty ==
    /\ done.op = "submit" /\ toast.kind = "EmptyCart"
    /\ requests = done.pre.requests

\* C22: an issue whose return period is outside 1..365 days ends as a validation
\* error with the store as it was: no issued row is created.
C22_IssueValidation ==
    (done.op = "issue" /\ (done.qty < 1 \/ done.qty > 365)) =>
        /\ toast.kind = "ValidationError"
        /\ issued_items = done.pre.issued_items
        /\ requests = done.pre.requests
        /\ stock_items = done.pre.stock_items

C22_Witness ==
    /\ done.op = "issue" /\ done.qty = 366
    /\ toast.kind = "ValidationError"
    /\ requests[done.id].status = "approved"
    /\ issued_items = <<>>

\* C23: each time a requests list has been loaded, the issued flag of every row is
\* true exactly if some issued row references that request, also when the lookup
\* of the issued rows failed.
C23_IssuedFlag ==
    done.op = "load" =>
        \A r \in 1..Len(view[done.session].rows) :
            view[done.session].rows[r].is_issued
                <=> \E n \in 1..Len(issued_items) : issued_items[n].request_id = r

\* C24: a request is issued at most once: the issued rows referencing a request
\* are never more than its lines, and an issue that created rows did so for a
\* request whose stored status was approved.
C24_IssuedOnce ==
    /\ \A r \in 1..Len(requests) :
          Cardinality({n \in 1..Len(issued_items) : issued_items[n].request_id = r})
              <= Len(requests[r].items)
    /\ (done.op = "issue" /\ issued_items # done.pre.issued_items) =>
          done.pre.requests[done.id].status = "approved"

\* the quantity of item i deducted on behalf of request r
DeductedFor(r, i) ==
    SumBag(ledger[i], {e \in BagToSet(ledger[i]) : e.op = "deduct" /\ e.ref = r})

\* C25: whatever approve and reject actions the admin sessions take on a request,
\* the total deducted from an item on its behalf never exceeds the quantity of
\* its line for that item.
C25_DeductedOnce ==
    \A r \in 1..Len(requests), i \in Items :
        DeductedFor(r, i) <= Asked(requests[r].items, i)

\* the quantity of item i out with holders: issued and not returned
RECURSIVE Unreturned(_, _)
Unreturned(n, i) ==
    IF n = 0 THEN 0
    ELSE (IF issued_items[n].item_id = i /\ ~issued_items[n].returned
          THEN issued_items[n].quantity_issued ELSE 0)
         + Unreturned(n - 1, i)

\* the quantity of item i in the lines of the first n requests that are approved
\* and not issued yet
RECURSIVE Reserved(_, _)
Reserved(n, i) ==
    IF n = 0 THEN 0
    ELSE (IF /\ requests[n].status = "approved"
             /\ ~\E k \in 1..Len(issued_items) : issued_items[k].request_id = n
          THEN Asked(requests[n].items, i) ELSE 0)
         + Reserved(n - 1, i)

C26_WitnessReserved ==
    /\ AllIdle
    /\ \E i \in Items : Reserved(Len(requests), i) > 0 /\ SumOf(ledger[i], "restock") > 0

C26_WitnessReturned ==
    /\ AllIdle
    /\ \E i \in Items :
          /\ SumOf(ledger[i], "credit") > 0
          /\ SumOf(ledger[i], "restock") > 0
          /\ Unreturned(Len(issued_items), i) = 0

\* C27: a transfer that appended a row recorded as from_user the holder of the
\* issued row just before it and as to_user the holder just after it, the two
\* different; a transfer asked for by a user who was not the holder changed
\* neither the issued rows nor the transfer rows.
C27_TransferRow ==
    done.op = "transfer" =>
        /\ item_transfers # done.pre.item_transfers =>
              LET row == item_transfers[Len(item_transfers)]
              IN /\ row.from_user_id = done.pre.issued_items[done.id].user_id
                 /\ row.to_user_id = issued_items[done.id].user_id
                 /\ row.to_user_id # row.from_user_id
        /\ done.pre.issued_items[done.id].user_id # done.session =>
              /\ issued_items = done.pre.issued_items
              /\ item_transfers = done.pre.item_transfers

\* C28: however a guest's transfer and an admin's markReturned of the same issued
\* row interleave, once the row is stored as returned its holder does not change
\* and no transfer row is appended for it.
C28_ReturnedKeepsHolder ==
    [][\A n \in 1..Len(issued_items) :
          issued_items[n].returned =>
              /\ issued_items'[n].user_id = issued_items[n].user_id
              /\ \A k \in (Len(item_transfers) + 1)..Len(item_transfers') :
                    item_transfers'[k].issued_item_id # n]_vars

\* C29: in the request details dialog, after a quantity was changed with the plus,
\* minus or number controls and Cancel was pressed, the dialog's lines are the
\* stored lines again; so whenever the dialog is not in an edit its lines are the
\* stored lines, which is what a following Approve deducts and stores.
C29_CancelRestores ==
    /\ done.op = "cancelEdit" => done.lines = requests[done.id].items
    /\ \A s \in Admins :
          (AllIdle /\ modal[s].request # 0 /\ modal[s].editingItemIndex = 0)
              => modal[s].editableItems = requests[modal[s].request].items

\* the password typed is the credential of the user the name resolves to: the
\* password its stored hash was made from, or the password of a built-in account
Corresponds(un, pw) ==
    /\ un \in DOMAIN users
    /\ \/ users[un].password_hash.password = pw
       \/ isAnil(un) /\ anilPwOk(pw)
       \/ builtIn(un, pw)

\* C30: a sign-in succeeds only with a password that corresponds to the credential
\* of the resolved user, whatever the format of the stored hash; a sign-in that
\* does not succeed leaves user and profile as they were (unset when they were).
C30_SignIn ==
    /\ [](done.op = "signIn" /\ toast.kind = "success"
            => Corresponds(done.username, done.password))
    /\ [][(done'.op = "signIn" /\ ~Corresponds(done'.username, done'.password))
            => (user' = user /\ profile' = profile)]_vars

====
